---- MODULE Spec2Model ----
(***************************************************************************)
(* A model of zoobzio/vex: the request orchestration layer (Service.Batch  *)
(* and its single-text and query-mode forms), the Chunker, the Pooler and  *)
(* the vector algebra it uses.                                             *)
(*                                                                         *)
(* Texts are sequences of code points (one-character strings).  Vectors    *)
(* are sequences of integers read as fixed-point numbers in units of       *)
(* 1/Scale; a nil or empty Go slice is the empty sequence <<>>.            *)
(***************************************************************************)
EXTENDS Integers, Sequences, FiniteSets, TLC

(***************************************************************************)
(* Bounds of the model.                                                    *)
(***************************************************************************)
\* most texts handed to one Batch / BatchQuery call
MaxTexts == 2
\* fixed-point unit of the vector arithmetic: the number 1.0 is Scale
Scale == 100
\* the maxAttempts given to WithRetry when the Service is built with it
RetryAttempts == 2
\* the calls that run concurrently on one Service
MaxCalls == 2
\* most code points of a generated text handed to the Chunker
MaxLen == 4
\* most vectors handed to one direct call of Pool
MaxVectors == 3
\* most dimensions of a generated operand of the Vector methods
MaxDims == 2

(***************************************************************************)
(* api.go: the enumerations.                                               *)
(***************************************************************************)
ChunkNone == 0
ChunkSentence == 1
ChunkParagraph == 2
ChunkFixed == 3

PoolMean == 0
PoolFirst == 1
PoolMax == 2

Cosine == 0
DotProduct == 1
Euclidean == 2

(***************************************************************************)
(* Helpers over sequences.                                                 *)
(***************************************************************************)
Min(a, b) == IF a < b THEN a ELSE b

\* s[from..to] with 1-based inclusive indices, <<>> when from > to
Slice(s, from, to) == [k \in 1..(to - from + 1) |-> s[from + k - 1]]

\* unicode.IsSpace over the code points of the model's alphabet
IsSpace(r) == r \in {" ", "\n", "\t"}

\* strings.TrimSpace: the text without leading and trailing white space
TrimSpace(s) ==
    LET keep == {k \in 1..Len(s) : ~IsSpace(s[k])}
    IN  IF keep = {} THEN <<>>
        ELSE LET lo == CHOOSE k \in keep : \A j \in keep : k <= j
                 hi == CHOOSE k \in keep : \A j \in keep : k >= j
             IN  Slice(s, lo, hi)

(***************************************************************************)
(* Chunker (chunker.go).  A Chunker is a record                            *)
(*   [Strategy, MaxSize, Overlap, TrimSpace].                              *)
(***************************************************************************)
DefaultChunker ==
    [Strategy |-> ChunkNone, MaxSize |-> 512, Overlap |-> 50, TrimSpace |-> TRUE]

\* faulty variant of isSentenceEnd: only the period ends a sentence
isSentenceEndPeriodOnly(r) == r = "."

isSentenceEnd(r) == r \in {".", "!", "?"}

\* the loop of chunkBySentence from code point i on, with the chunks emitted
\* so far and the running chunk `current`
RECURSIVE sentenceLoop(_, _, _, _)
sentenceLoop(runes, i, chunks, current) ==
    IF i > Len(runes)
    THEN IF Len(current) > 0 THEN Append(chunks, current) ELSE chunks
    ELSE LET cur == Append(current, runes[i])
         IN  IF isSentenceEnd(runes[i])
                /\ (i + 1 > Len(runes) \/ IsSpace(runes[i + 1]))
             THEN sentenceLoop(runes, i + 1, Append(chunks, cur), <<>>)
             ELSE sentenceLoop(runes, i + 1, chunks, cur)

chunkBySentence(text) == sentenceLoop(text, 1, <<>>, <<>>)

\* strings.Split(text, "\n\n"): left to right, separators do not overlap
RECURSIVE splitParagraphs(_, _, _)
splitParagraphs(text, i, current) ==
    IF i > Len(text) THEN <<current>>
    ELSE IF i + 1 <= Len(text) /\ text[i] = "\n" /\ text[i + 1] = "\n"
         THEN <<current>> \o splitParagraphs(text, i + 2, <<>>)
         ELSE splitParagraphs(text, i + 1, Append(current, text[i]))

\* faulty variant of dropEmpty: empty chunks stay in the result
dropEmptyKeepsAll(chunks) == chunks

RECURSIVE dropEmpty(_)
dropEmpty(chunks) ==
    IF chunks = <<>> THEN <<>>
    ELSE IF Head(chunks) # <<>> THEN <<Head(chunks)>> \o dropEmpty(Tail(chunks))
         ELSE dropEmpty(Tail(chunks))

chunkByParagraph(text) ==
    LET paragraphs == splitParagraphs(text, 1, <<>>)
    IN  dropEmpty([k \in 1..Len(paragraphs) |-> TrimSpace(paragraphs[k])])

\* faulty variant of step: MaxSize - Overlap whatever its sign
stepUnguarded(c) == c.MaxSize - c.Overlap

\* step := c.MaxSize - c.Overlap; if step <= 0 { step = c.MaxSize }
stepOf(c) == IF c.MaxSize - c.Overlap <= 0 THEN c.MaxSize ELSE c.MaxSize - c.Overlap

\* the window loop of chunkByFixed; i is the 0-based start of the window
RECURSIVE fixedLoop(_, _, _, _)
fixedLoop(runes, i, step, maxSize) ==
    IF i >= Len(runes) THEN <<>>
    ELSE LET end == Min(i + maxSize, Len(runes))
         IN  IF end = Len(runes) THEN <<Slice(runes, i + 1, end)>>
             ELSE <<Slice(runes, i + 1, end)>> \o fixedLoop(runes, i + step, step, maxSize)

\* faulty variant of chunkByFixed: the windows follow each other without overlap
chunkByFixedIgnoresOverlap(c, text) ==
    IF c.MaxSize <= 0 THEN <<text>>
    ELSE IF Len(text) <= c.MaxSize THEN <<text>>
    ELSE fixedLoop(text, 0, c.MaxSize, c.MaxSize)

chunkByFixed(c, text) ==
    IF c.MaxSize <= 0 THEN <<text>>
    ELSE IF Len(text) <= c.MaxSize THEN <<text>>
    ELSE fixedLoop(text, 0, stepOf(c), c.MaxSize)

\* faulty variant of Chunk: the None strategy goes through the post-processing
ChunkPostProcessesNone(c, text) ==
    LET chunks == CASE c.Strategy = ChunkSentence -> chunkBySentence(text)
                    [] c.Strategy = ChunkParagraph -> chunkByParagraph(text)
                    [] c.Strategy = ChunkFixed -> chunkByFixed(c, text)
                    [] OTHER -> <<text>>
        trimmed == IF c.TrimSpace
                   THEN [k \in 1..Len(chunks) |-> TrimSpace(chunks[k])]
                   ELSE chunks
    IN  dropEmpty(trimmed)

Chunk(c, text) ==
    IF c.Strategy = ChunkNone THEN <<text>>
    ELSE LET chunks == CASE c.Strategy = ChunkSentence -> chunkBySentence(text)
                         [] c.Strategy = ChunkParagraph -> chunkByParagraph(text)
                         [] c.Strategy = ChunkFixed -> chunkByFixed(c, text)
                         [] OTHER -> <<text>>
             trimmed == IF c.TrimSpace
                        THEN [k \in 1..Len(chunks) |-> TrimSpace(chunks[k])]
                        ELSE chunks
         IN  dropEmpty(trimmed)

(***************************************************************************)
(* Vector algebra and pooling (vector.go).  Go computes in float64 and     *)
(* stores float32; the model computes in integers and rounds each stored   *)
(* element to the nearest fixed-point unit.                                *)
(***************************************************************************)
\* a / b rounded to the nearest integer, b > 0
RoundDiv(a, b) == (2 * a + b) \div (2 * b)

RECURSIVE SumSq(_)
SumSq(v) == IF v = <<>> THEN 0 ELSE Head(v) * Head(v) + SumSq(Tail(v))

\* the largest r in lo..hi with r * r <= n
RECURSIVE sqrtSearch(_, _, _)
sqrtSearch(n, lo, hi) ==
    IF lo >= hi THEN lo
    ELSE LET mid == (lo + hi + 1) \div 2
         IN  IF mid * mid <= n THEN sqrtSearch(n, mid, hi)
             ELSE sqrtSearch(n, lo, mid - 1)

\* the integer square root; 46340 is the largest r whose square fits the
\* 32-bit integers of the arithmetic
Sqrt(n) == sqrtSearch(n, 0, Min(n, 46340))

\* Vector.Norm, in fixed-point units
Norm(v) == Sqrt(SumSq(v))

\* faulty variant of Normalize: divides by the squared norm
NormalizeBySquaredNorm(v) ==
    LET norm == Norm(v)
    IN  IF norm = 0 THEN v
        ELSE [i \in 1..Len(v) |-> RoundDiv(v[i] * Scale * Scale, SumSq(v))]

\* Vector.Normalize: v itself when its norm is 0, else a new vector v / norm
Normalize(v) ==
    LET norm == Norm(v)
    IN  IF norm = 0 THEN v
        ELSE [i \in 1..Len(v) |-> RoundDiv(v[i] * Scale, norm)]

\* math.MaxFloat64, the distance of vectors of different lengths: a stand-in
\* larger than every distance between vectors of the model
MaxFloat64 == 1000000000

RECURSIVE dotLoop(_, _, _)
dotLoop(v, other, i) ==
    IF i > Len(v) THEN 0 ELSE v[i] * other[i] + dotLoop(v, other, i + 1)

\* faulty variant of Dot: the receiver is multiplied with itself
DotSquaresReceiver(v, other) == IF Len(v) # Len(other) THEN 0 ELSE dotLoop(v, v, 1)

\* Vector.Dot, in units of 1/Scale^2; 0 for vectors of different lengths
Dot(v, other) == IF Len(v) # Len(other) THEN 0 ELSE dotLoop(v, other, 1)

\* Vector.CosineSimilarity, in fixed-point units
CosineSimilarity(v, other) ==
    IF Len(v) # Len(other) THEN 0
    ELSE LET dot == Dot(v, other)
             normA == Norm(v)
             normB == Norm(other)
         IN  IF normA = 0 \/ normB = 0 THEN 0
             ELSE RoundDiv(dot * Scale, normA * normB)

RECURSIVE diffSq(_, _, _)
diffSq(v, other, i) ==
    IF i > Len(v) THEN 0
    ELSE (v[i] - other[i]) * (v[i] - other[i]) + diffSq(v, other, i + 1)

\* faulty variant of EuclideanDistance: vectors of different lengths are at
\* distance 0, the sentinel of Dot
EuclideanDistanceMismatchZero(v, other) ==
    IF Len(v) # Len(other) THEN 0 ELSE Sqrt(diffSq(v, other, 1))

\* Vector.EuclideanDistance, in fixed-point units
EuclideanDistance(v, other) ==
    IF Len(v) # Len(other) THEN MaxFloat64 ELSE Sqrt(diffSq(v, other, 1))

\* Vector.Similarity: 1 / (1 + dist) for the Euclidean metric
Similarity(v, other, metric) ==
    CASE metric = Cosine -> CosineSimilarity(v, other)
      [] metric = DotProduct -> Dot(v, other)
      [] metric = Euclidean ->
            LET dist == EuclideanDistance(v, other)
            IN  RoundDiv(Scale * Scale, Scale + dist)
      [] OTHER -> CosineSimilarity(v, other)

\* sums[i] after the accumulation loop of poolMean: every vector adds the
\* components it has
RECURSIVE sumAt(_, _)
sumAt(vectors, i) ==
    IF vectors = <<>> THEN 0
    ELSE (IF i <= Len(Head(vectors)) THEN Head(vectors)[i] ELSE 0) + sumAt(Tail(vectors), i)

\* poolMean and poolMax index a slice of len(vectors[0]) elements with every
\* index of every vector: a vector longer than the first is an index out of
\* range, a run-time panic
poolIndexOutOfRange(vectors) ==
    \E k \in 1..Len(vectors) : Len(vectors[k]) > Len(vectors[1])

poolMean(vectors) ==
    LET dims == Len(vectors[1])
        n == Len(vectors)
    IN  [i \in 1..dims |-> RoundDiv(sumAt(vectors, i), n)]

RECURSIVE maxAt(_, _, _)
maxAt(vectors, i, best) ==
    IF vectors = <<>> THEN best
    ELSE maxAt(Tail(vectors), i,
               IF i <= Len(Head(vectors)) /\ Head(vectors)[i] > best
               THEN Head(vectors)[i] ELSE best)

poolMax(vectors) ==
    LET dims == Len(vectors[1])
    IN  [i \in 1..dims |-> maxAt(Tail(vectors), i, vectors[1][i])]

\* faulty variant of Pool: an unknown mode returns the first vector
PoolUnknownModeFirst(vectors, mode) ==
    IF Len(vectors) = 0 THEN <<>>
    ELSE IF Len(vectors) = 1 THEN vectors[1]
    ELSE CASE mode = PoolFirst -> vectors[1]
           [] mode = PoolMax -> poolMax(vectors)
           [] mode = PoolMean -> poolMean(vectors)
           [] OTHER -> vectors[1]

Pool(vectors, mode) ==
    IF Len(vectors) = 0 THEN <<>>
    ELSE IF Len(vectors) = 1 THEN vectors[1]
    ELSE CASE mode = PoolFirst -> vectors[1]
           [] mode = PoolMax -> poolMax(vectors)
           [] mode = PoolMean -> poolMean(vectors)
           [] OTHER -> poolMean(vectors)

\* the calls of Pool that panic instead of returning
PoolPanics(vectors, mode) ==
    /\ Len(vectors) >= 2
    /\ mode # PoolFirst
    /\ poolIndexOutOfRange(vectors)

(***************************************************************************)
(* The inputs of the model.                                                *)
(***************************************************************************)
\* the texts a caller passes: "", " ", "a. b"
SampleTexts == {<<>>, <<" ">>, <<"a", ".", " ", "b">>}

RECURSIVE SeqsUpTo(_, _)
SeqsUpTo(S, n) ==
    IF n = 0 THEN {<<>>}
    ELSE LET shorter == SeqsUpTo(S, n - 1)
         IN  shorter \cup {Append(q, x) : q \in {r \in shorter : Len(r) = n - 1}, x \in S}

SeqsOfLen(S, n) == {q \in SeqsUpTo(S, n) : Len(q) = n}

TextLists == SeqsUpTo(SampleTexts, MaxTexts)

\* the chunkers a caller passes to WithChunker
Chunkers ==
    [Strategy : {ChunkNone, ChunkSentence, ChunkParagraph, ChunkFixed},
     MaxSize : {2}, Overlap : {0}, TrimSpace : BOOLEAN]

PoolingModes == {PoolMean, PoolFirst, PoolMax}

\* the vectors a provider returns for a chunk, in fixed-point units
ProviderVectors == {<<30, 40>>, <<40, 0>>}

\* the options a Service is built with: none, or WithRetry(RetryAttempts)
OptionLists == {<<>>, <<[kind |-> "retry", maxAttempts |-> RetryAttempts]>>}

\* the correlation ids uuid.New() may return
RequestIDs == {1}

\* Provider.Name() of the backend; a query-mode handle reports the same name
ProviderName == "mock"

(***************************************************************************)
(* Errors, responses, requests (service.go, api.go).                       *)
(* An error records its kind and what context it was wrapped with.         *)
(***************************************************************************)
NoError == [kind |-> "nil", provider |-> "", requestID |-> 0]
ProviderError == [kind |-> "provider", provider |-> "", requestID |-> 0]
\* ctx.Err() after the caller cancelled: context.Canceled
CanceledError == [kind |-> "canceled", provider |-> "", requestID |-> 0]

\* a nil *EmbeddingResponse
NilResponse == [isNil |-> TRUE, Vectors |-> <<>>]
EmbeddingResponse(vectors) == [isNil |-> FALSE, Vectors |-> vectors]

\* no *EmbedRequest was created
NoRequest == [created |-> FALSE, Texts |-> <<>>, RequestID |-> 0, Provider |-> "",
              Error |-> NoError, Response |-> NilResponse]
EmbedRequest(chunks, id, name) ==
    [created |-> TRUE, Texts |-> chunks, RequestID |-> id, Provider |-> name,
     Error |-> NoError, Response |-> NilResponse]

NoReturn == [vecs |-> <<>>, err |-> NoError]
NoVector == [vec |-> <<>>, err |-> NoError]

(***************************************************************************)
(* The state.                                                              *)
(***************************************************************************)
VARIABLES
    \* the Service: its fields, set by NewService and the With* setters
    pipeline, queryPipeline, chunker, poolingMode, normalize,
    \* the backend: whether it implements QueryProviderFactory, and how often
    \* its ForQuery was called
    capable, forQueryCalls,
    \* the call in progress
    pc,            \* "idle", "inflight" (inside pipeline.Process), "done"
    op,            \* "Batch", "Embed", "BatchQuery", "EmbedQuery"
    texts,         \* the texts of the Batch call
    chunkMapping,  \* chunk index -> index of the text it came from
    req,           \* the *EmbedRequest handed to the pipeline
    target,        \* the pipeline the call dispatched to
    processCalls,  \* calls of pipeline.Process made by this call
    attempts,      \* provider calls made by the pipeline for this request
    embedCalls,    \* provider.Embed calls of this call, per provider handle
    ctxCancelled,  \* the caller's context was cancelled during dispatch
    processErr,    \* the error pipeline.Process returned to Batch
    events,        \* the signals emitted by this call, in order
    ret,           \* what Batch / BatchQuery returned
    single,        \* what Embed / EmbedQuery returned
    \* a direct call of a function of the package (Chunker.Chunk, Pool, the
    \* Vector methods): the call with its arguments, what it returned, and
    \* whether it ended in a run-time panic instead of returning
    applied, result, panicked

svcVars == <<pipeline, queryPipeline, chunker, poolingMode, normalize, capable, forQueryCalls>>
callVars == <<pc, op, texts, chunkMapping, req, target, processCalls, attempts,
              embedCalls, ctxCancelled, processErr, events, ret, single>>
pureVars == <<applied, result, panicked>>
vars == <<svcVars, callVars, pureVars>>

\* no function of the package has been called directly
NoCall == [fn |-> "none"]

(***************************************************************************)
(* Construction (service.go: NewTerminal, NewService).  A pipeline is the  *)
(* list of its wrapping stages, outermost first, around the terminal stage *)
(* that calls one provider handle.                                         *)
(***************************************************************************)
DocHandle == "document"
QueryHandle == "query"
Handles == {DocHandle, QueryHandle}

\* faulty variants of TerminalProvider: the terminal stage calls one fixed handle,
\* whatever provider it was built for
TerminalProviderDocument(provider) == "document"

TerminalProviderQuery(provider) == "query"

\* the handle the terminal stage built for `provider` calls Embed on
TerminalProvider(provider) == provider

NewTerminal(provider) == [stages |-> <<>>, provider |-> TerminalProvider(provider)]

\* an Option applied to a pipeline wraps it in one more stage
ApplyOption(opt, p) == [p EXCEPT !.stages = <<opt>> \o @]

\* faulty variant of applyOptions: the options are applied first to last
RECURSIVE applyOptionsForward(_, _, _)
applyOptionsForward(opts, i, p) ==
    IF i < 1 THEN p ELSE ApplyOption(opts[i], applyOptionsForward(opts, i - 1, p))

\* the loop of NewService: for i := len(opts) - 1; i >= 0; i--
RECURSIVE applyOptions(_, _, _)
applyOptions(opts, i, p) ==
    IF i < 1 THEN p ELSE applyOptions(opts, i - 1, ApplyOption(opts[i], p))

NewServicePipeline(provider, opts) == applyOptions(opts, Len(opts), NewTerminal(provider))

\* QueryProviderFactory.ForQuery: a handle of the same backend in query mode
ForQuery(provider) == QueryHandle

\* the query pipeline NewService builds: when the provider implements
\* QueryProviderFactory, the same options around a terminal for ForQuery();
\* otherwise the document pipeline itself
NewServiceQueryPipeline(isCapable, provider, opts) ==
    IF isCapable THEN applyOptions(opts, Len(opts), NewTerminal(ForQuery(provider)))
    ELSE NewServicePipeline(provider, opts)

\* faulty variant of MaxAttempts: a retry stage sends the request once only
MaxAttemptsNoRetry(stages) == 1

\* faulty variant of MaxAttempts: a failed request is sent again even without a retry stage
MaxAttemptsRetrying(stages) == 2

\* the provider calls a pipeline makes at most for one request: each retry
\* stage multiplies the attempts of what it wraps
RECURSIVE MaxAttempts(_)
MaxAttempts(stages) ==
    IF stages = <<>> THEN 1
    ELSE (IF Head(stages).kind = "retry" THEN Head(stages).maxAttempts ELSE 1)
         * MaxAttempts(Tail(stages))

NoCalls == [h \in Handles |-> 0]

Init ==
    /\ capable \in BOOLEAN
    /\ \E opts \in OptionLists :
          /\ pipeline = NewServicePipeline(DocHandle, opts)
          /\ queryPipeline = NewServiceQueryPipeline(capable, DocHandle, opts)
    /\ forQueryCalls = IF capable THEN 1 ELSE 0
    /\ chunker = DefaultChunker
    /\ poolingMode = PoolMean
    /\ normalize = TRUE
    /\ pc = "idle"
    /\ op = "Batch"
    /\ texts = <<>>
    /\ chunkMapping = <<>>
    /\ req = NoRequest
    /\ target = pipeline
    /\ processCalls = 0
    /\ attempts = 0
    /\ embedCalls = NoCalls
    /\ ctxCancelled = FALSE
    /\ processErr = NoError
    /\ events = <<>>
    /\ ret = NoReturn
    /\ single = NoVector
    /\ applied = NoCall
    /\ result = <<>>
    /\ panicked = FALSE

(***************************************************************************)
(* The setters (service.go: WithChunker, WithPooling, WithNormalize):      *)
(* reconfiguration happens while no call is running.                       *)
(***************************************************************************)
WithChunker(c) ==
    /\ pc = "idle"
    /\ chunker' = c
    /\ UNCHANGED <<pipeline, queryPipeline, poolingMode, normalize, capable, forQueryCalls, callVars, pureVars>>

WithPooling(mode) ==
    /\ pc = "idle"
    /\ poolingMode' = mode
    /\ UNCHANGED <<pipeline, queryPipeline, chunker, normalize, capable, forQueryCalls, callVars, pureVars>>

WithNormalize(b) ==
    /\ pc = "idle"
    /\ normalize' = b
    /\ UNCHANGED <<pipeline, queryPipeline, chunker, poolingMode, capable, forQueryCalls, callVars, pureVars>>

(***************************************************************************)
(* Service.Batch (service.go), up to the call of pipeline.Process.         *)
(***************************************************************************)
Event(sig, id, name) == [sig |-> sig, requestID |-> id, provider |-> name]

\* faulty variant of chunkTexts: the mapping gets one entry per text, not per chunk
RECURSIVE chunkTextsOneEntryPerText(_, _, _, _, _)
chunkTextsOneEntryPerText(c, ts, i, allChunks, mapping) ==
    IF i > Len(ts) THEN [allChunks |-> allChunks, chunkMapping |-> mapping]
    ELSE chunkTextsOneEntryPerText(c, ts, i + 1, allChunks \o Chunk(c, ts[i]),
                                   Append(mapping, i))

\* the chunk-and-map loop of Batch over texts[i..]: the flat chunk list and
\* the mapping from chunk index to text index
RECURSIVE chunkTexts(_, _, _, _, _)
chunkTexts(c, ts, i, allChunks, mapping) ==
    IF i > Len(ts) THEN [allChunks |-> allChunks, chunkMapping |-> mapping]
    ELSE LET chunks == Chunk(c, ts[i])
         IN  chunkTexts(c, ts, i + 1, allChunks \o chunks,
                        mapping \o [k \in 1..Len(chunks) |-> i])

\* faulty variant of rejectEmpty: the empty list is dispatched like any other
rejectEmptyNever(ts) == FALSE

\* Batch's first check: if len(texts) == 0 { return nil, nil }
rejectEmpty(ts) == Len(ts) = 0

\* the first half of Batch on pipeline pl: reject an empty list, or emit the
\* start event, chunk, build the request and enter pipeline.Process
batchBegin(o, ts, pl) ==
    /\ pc = "idle"
    /\ op' = o
    /\ texts' = ts
    /\ target' = pl
    /\ attempts' = 0
    /\ embedCalls' = NoCalls
    /\ ctxCancelled' = FALSE
    /\ processErr' = NoError
    /\ single' = NoVector
    /\ ret' = NoReturn
    /\ IF rejectEmpty(ts)
       THEN /\ pc' = "done"
            /\ req' = NoRequest
            /\ chunkMapping' = <<>>
            /\ processCalls' = 0
            /\ events' = <<>>
       ELSE \E requestID \in RequestIDs :
               LET chunked == chunkTexts(chunker, ts, 1, <<>>, <<>>)
               IN  /\ events' = <<Event("EmbedStarted", requestID, ProviderName)>>
                   /\ chunkMapping' = chunked.chunkMapping
                   /\ req' = EmbedRequest(chunked.allChunks, requestID, ProviderName)
                   /\ processCalls' = 1
                   /\ pc' = "inflight"
    /\ UNCHANGED <<svcVars, pureVars>>

Batch(ts) == batchBegin("Batch", ts, pipeline)

Embed(text) == batchBegin("Embed", <<text>>, pipeline)

\* the query forms run the same call on the Service's query pipeline
BatchQuery(ts) == batchBegin("BatchQuery", ts, queryPipeline)

EmbedQuery(text) == batchBegin("EmbedQuery", <<text>>, queryPipeline)

\* the caller cancels the context while the pipeline call is in flight
Cancel ==
    /\ pc = "inflight"
    /\ ~ctxCancelled
    /\ ctxCancelled' = TRUE
    /\ UNCHANGED <<svcVars, pureVars, pc, op, texts, chunkMapping, req, target, processCalls,
                   attempts, embedCalls, processErr, events, ret, single>>

(***************************************************************************)
(* Service.Batch after pipeline.Process has returned (processed, err).     *)
(***************************************************************************)
\* faulty variant of mappingReads: mapping[i] is read for every chunk vector
mappingReadsUnguarded(chunkVectors, mapping) == 1..Len(chunkVectors)

\* the indices i at which the grouping loop of poolChunks reads mapping[i]:
\* those of the chunk vectors that pass `if i < len(mapping)`
mappingReads(chunkVectors, mapping) ==
    {i \in 1..Len(chunkVectors) : i <= Len(mapping)}

\* the grouping loop indexes out of range, a run-time panic: mapping[i] past
\* the end of the mapping, or grouped[textIdx] past the end of the group list
poolChunksPanics(ts, chunkVectors, mapping) ==
    \E i \in mappingReads(chunkVectors, mapping) :
        \/ i > Len(mapping)
        \/ mapping[i] < 1
        \/ mapping[i] > Len(ts)

\* the vectors of chunkVectors[i..] whose chunk belongs to text textIdx, in order
RECURSIVE groupOf(_, _, _, _)
groupOf(chunkVectors, mapping, textIdx, i) ==
    IF i > Len(chunkVectors) THEN <<>>
    ELSE IF i \in mappingReads(chunkVectors, mapping) /\ mapping[i] = textIdx
         THEN <<chunkVectors[i]>> \o groupOf(chunkVectors, mapping, textIdx, i + 1)
         ELSE groupOf(chunkVectors, mapping, textIdx, i + 1)

\* faulty variant of poolChunks: the chunk mapping is ignored, vector i goes to text i
poolChunksByPosition(ts, chunkVectors, mapping, mode) ==
    [i \in 1..Len(ts) |-> IF i <= Len(chunkVectors) THEN chunkVectors[i] ELSE <<>>]

poolChunks(ts, chunkVectors, mapping, mode) ==
    [i \in 1..Len(ts) |->
        LET vecs == groupOf(chunkVectors, mapping, i, 1)
        IN  IF Len(vecs) > 0 THEN Pool(vecs, mode) ELSE <<>>]

\* the normalize loop of Batch
normalizeAll(vectors, flag) ==
    IF flag THEN [i \in 1..Len(vectors) |-> Normalize(vectors[i])] ELSE vectors

\* the error Batch returns for the error pipeline.Process reported
batchError(err, id, name) == err

\* faulty variant of batchReturn: on an error the slots built so far are returned with it
batchReturnKeepsVectors(ts, processed, err, mapping, mode, flag) ==
    IF processed.Response.isNil \/ Len(processed.Response.Vectors) = 0
    THEN [vecs |-> IF err # NoError THEN [i \in 1..Len(ts) |-> <<>>] ELSE <<>>, err |-> err]
    ELSE [vecs |-> normalizeAll(poolChunks(ts, processed.Response.Vectors, mapping, mode), flag),
          err |-> err]

\* faulty variant of batchReturn: the check for an empty response is missing
batchReturnNoEmptyCheck(ts, processed, err, mapping, mode, flag) ==
    IF err # NoError
    THEN [vecs |-> <<>>, err |-> err]
    ELSE [vecs |-> normalizeAll(poolChunks(ts, processed.Response.Vectors, mapping, mode), flag),
          err |-> NoError]

\* what Batch returns for the outcome (processed, err) of pipeline.Process
batchReturn(ts, processed, err, mapping, mode, flag) ==
    IF err # NoError
    THEN [vecs |-> <<>>, err |-> batchError(err, processed.RequestID, processed.Provider)]
    ELSE IF processed.Response.isNil \/ Len(processed.Response.Vectors) = 0
         THEN [vecs |-> <<>>, err |-> NoError]
         ELSE [vecs |-> normalizeAll(poolChunks(ts, processed.Response.Vectors, mapping, mode), flag),
               err |-> NoError]

\* the closing event Batch emits for the outcome, if any
batchEvents(processed, err) ==
    IF err # NoError
    THEN <<Event("EmbedFailed", processed.RequestID, processed.Provider)>>
    ELSE IF processed.Response.isNil \/ Len(processed.Response.Vectors) = 0
         THEN <<>>
         ELSE <<Event("EmbedCompleted", processed.RequestID, processed.Provider)>>

\* faulty variant of embedReturn: the length is checked before the error, which is lost
embedReturnDropsError(batch) ==
    IF Len(batch.vecs) = 0 THEN [vec |-> <<>>, err |-> NoError]
    ELSE [vec |-> batch.vecs[1], err |-> batch.err]

\* what Embed returns for what its Batch call returned
embedReturn(batch) ==
    IF batch.err # NoError THEN [vec |-> <<>>, err |-> batch.err]
    ELSE IF Len(batch.vecs) = 0 THEN [vec |-> <<>>, err |-> NoError]
    ELSE [vec |-> batch.vecs[1], err |-> NoError]

(***************************************************************************)
(* The pipeline (service.go: NewTerminal; options.go: WithRetry).  Each    *)
(* step is one provider.Embed call returning, with everything the          *)
(* synchronous code does after it: the terminal stage records the outcome  *)
(* in the request, a retry stage may send the request to the provider      *)
(* again, and once pipeline.Process returns Batch runs to its return.      *)
(***************************************************************************)
\* how many vectors a provider may answer n texts with
ResponseCounts(n) == {0, n}

\* the terminal stage after provider.Embed returned (resp, err)
terminalRequest(r, resp, err) ==
    IF err # NoError THEN [r EXCEPT !.Error = err] ELSE [r EXCEPT !.Response = resp]

terminalEvents(err) ==
    <<Event("ProviderCallStarted", 0, ProviderName),
      Event(IF err # NoError THEN "ProviderCallFailed" ELSE "ProviderCallCompleted",
            0, ProviderName)>>

\* Batch and, for the single-text forms, Embed return
finish(processed, err) ==
    LET batch == batchReturn(texts, processed, err, chunkMapping, poolingMode, normalize)
    IN  /\ pc' = "done"
        /\ processErr' = err
        /\ ret' = batch
        /\ single' = IF op \in {"Embed", "EmbedQuery"} THEN embedReturn(batch) ELSE NoVector

\* provider.Embed returns a response
ProviderSucceeds(vectors) ==
    /\ pc = "inflight"
    /\ Len(vectors) \in ResponseCounts(Len(req.Texts))
    /\ LET processed == terminalRequest(req, EmbeddingResponse(vectors), NoError)
       IN  /\ req' = processed
           /\ events' = events \o terminalEvents(NoError) \o batchEvents(processed, NoError)
           /\ finish(processed, NoError)
    /\ attempts' = attempts + 1
    /\ embedCalls' = [embedCalls EXCEPT ![target.provider] = @ + 1]
    /\ UNCHANGED <<svcVars, pureVars, op, texts, chunkMapping, target, processCalls, ctxCancelled>>

\* provider.Embed returns an error: a provider failure, or the context's
\* error once the caller has cancelled
ProviderFails(err) ==
    /\ pc = "inflight"
    /\ err.kind = "canceled" => ctxCancelled
    /\ LET processed == terminalRequest(req, NilResponse, err)
           mayRetry == attempts + 1 < MaxAttempts(target.stages)
       IN  /\ req' = processed
           /\ \/ /\ mayRetry
                 /\ events' = events \o terminalEvents(err)
                 /\ UNCHANGED <<pc, processErr, ret, single>>
              \/ /\ ~mayRetry \/ ctxCancelled
                 /\ events' = events \o terminalEvents(err) \o batchEvents(processed, err)
                 /\ finish(processed, err)
    /\ attempts' = attempts + 1
    /\ embedCalls' = [embedCalls EXCEPT ![target.provider] = @ + 1]
    /\ UNCHANGED <<svcVars, pureVars, op, texts, chunkMapping, target, processCalls, ctxCancelled>>

\* the caller takes the result; the Service is ready for the next call
Return ==
    /\ pc = "done"
    /\ pc' = "idle"
    /\ op' = "Batch"
    /\ texts' = <<>>
    /\ chunkMapping' = <<>>
    /\ req' = NoRequest
    /\ target' = pipeline
    /\ processCalls' = 0
    /\ attempts' = 0
    /\ embedCalls' = NoCalls
    /\ ctxCancelled' = FALSE
    /\ processErr' = NoError
    /\ events' = <<>>
    /\ ret' = NoReturn
    /\ single' = NoVector
    /\ UNCHANGED <<svcVars, pureVars>>

Next ==
    \/ \E c \in Chunkers : WithChunker(c)
    \/ \E mode \in PoolingModes : WithPooling(mode)
    \/ \E b \in BOOLEAN : WithNormalize(b)
    \/ \E ts \in TextLists : Batch(ts)
    \/ \E text \in SampleTexts : Embed(text)
    \/ \E ts \in TextLists : BatchQuery(ts)
    \/ \E text \in SampleTexts : EmbedQuery(text)
    \/ Cancel
    \/ \E vectors \in SeqsUpTo(ProviderVectors, Len(req.Texts)) : ProviderSucceeds(vectors)
    \/ \E err \in {ProviderError, CanceledError} : ProviderFails(err)
    \/ Return

Spec == Init /\ [][Next]_vars

(***************************************************************************)
(* Concurrent calls on one Service (service.go: Batch, Embed, poolChunks). *)
(* Each call is a goroutine running Batch; the steps of different calls    *)
(* interleave at the points where Batch waits for the provider.  In this   *)
(* specification the variables of the call are functions of the call: the  *)
(* program counter, the arguments and what the caller receives belong to   *)
(* call c, the locals of Batch live in the activation record of the call.  *)
(* The Service is built without options over a backend without query mode. *)
(***************************************************************************)
Calls == 1..MaxCalls

\* the text lists the concurrent callers pass: "a. b" and " " in both orders,
\* and "a. b" alone
ConcurrentTextLists ==
    {<<<<"a", ".", " ", "b">>, <<" ">>>>, <<<<" ">>, <<"a", ".", " ", "b">>>>,
     <<<<"a", ".", " ", "b">>>>}

\* the chunkers the shared Service is configured with
ConcurrentChunkers ==
    {DefaultChunker,
     [Strategy |-> ChunkSentence, MaxSize |-> 2, Overlap |-> 0, TrimSpace |-> TRUE]}

\* faulty variant of callFrame: the locals of Batch are kept in one place
\* shared by all calls
callFrameShared(c) == 1

\* the activation record holding the locals of call c: allChunks,
\* chunkMapping, req, and the result being built
callFrame(c) == c

ConcurrentInit ==
    /\ capable = FALSE
    /\ forQueryCalls = 0
    /\ pipeline = NewServicePipeline(DocHandle, <<>>)
    /\ queryPipeline = pipeline
    /\ chunker \in ConcurrentChunkers
    /\ poolingMode \in PoolingModes
    /\ normalize = TRUE
    /\ pc = [c \in Calls |-> "idle"]
    /\ op = [c \in Calls |-> "Batch"]
    /\ texts = [c \in Calls |-> <<>>]
    /\ chunkMapping = [c \in Calls |-> <<>>]
    /\ req = [c \in Calls |-> NoRequest]
    /\ processErr = [c \in Calls |-> NoError]
    /\ ret = [c \in Calls |-> NoReturn]
    /\ single = [c \in Calls |-> NoVector]
    /\ target = pipeline
    /\ processCalls = 0
    /\ attempts = 0
    /\ embedCalls = NoCalls
    /\ ctxCancelled = FALSE
    /\ events = <<>>
    /\ applied = NoCall
    /\ result = <<>>
    /\ panicked = FALSE

\* the variables the concurrent specification leaves as they are: the
\* Service, and the counters and events Spec follows for its single call
concurrentFixed ==
    <<svcVars, pureVars, target, processCalls, attempts, embedCalls, ctxCancelled, events>>

\* call c enters Batch with texts ts (o is "Batch", or "Embed" for the
\* single-text form) and runs up to pipeline.Process
concurrentBegin(c, o, ts) ==
    /\ pc[c] = "idle"
    /\ op' = [op EXCEPT ![c] = o]
    /\ texts' = [texts EXCEPT ![c] = ts]
    /\ IF rejectEmpty(ts)
       THEN /\ pc' = [pc EXCEPT ![c] = "done"]
            /\ ret' = [ret EXCEPT ![callFrame(c)] = NoReturn]
            /\ UNCHANGED <<chunkMapping, req>>
       ELSE \E requestID \in RequestIDs :
               LET chunked == chunkTexts(chunker, ts, 1, <<>>, <<>>)
               IN  /\ chunkMapping' = [chunkMapping EXCEPT ![callFrame(c)] = chunked.chunkMapping]
                   /\ req' = [req EXCEPT ![callFrame(c)] =
                                 EmbedRequest(chunked.allChunks, requestID, ProviderName)]
                   /\ pc' = [pc EXCEPT ![c] = "inflight"]
                   /\ UNCHANGED ret
    /\ UNCHANGED <<processErr, single, concurrentFixed>>

ConcurrentBatch(c, ts) == concurrentBegin(c, "Batch", ts)

ConcurrentEmbed(c, text) == concurrentBegin(c, "Embed", <<text>>)

\* pipeline.Process of call c returns (processed, err): Batch runs to its
\* return and, for the single-text form, Embed returns
concurrentFinish(c, processed, err) ==
    LET f == callFrame(c)
        batch == batchReturn(texts[c], processed, err, chunkMapping[f], poolingMode, normalize)
    IN  /\ req' = [req EXCEPT ![f] = processed]
        /\ pc' = [pc EXCEPT ![c] = "done"]
        /\ processErr' = [processErr EXCEPT ![c] = err]
        /\ ret' = [ret EXCEPT ![f] = batch]
        /\ single' = [single EXCEPT ![c] = IF op[c] = "Embed" THEN embedReturn(batch) ELSE NoVector]
        /\ UNCHANGED <<op, texts, chunkMapping, concurrentFixed>>

\* the provider answers the request of call c with a response
ConcurrentProviderSucceeds(c, vectors) ==
    /\ pc[c] = "inflight"
    /\ Len(vectors) \in ResponseCounts(Len(req[callFrame(c)].Texts))
    /\ concurrentFinish(c, terminalRequest(req[callFrame(c)], EmbeddingResponse(vectors), NoError),
                        NoError)

\* the provider answers the request of call c with an error
ConcurrentProviderFails(c) ==
    /\ pc[c] = "inflight"
    /\ concurrentFinish(c, terminalRequest(req[callFrame(c)], NilResponse, ProviderError),
                        ProviderError)

\* the caller of call c takes the result; its goroutine may call again
ConcurrentReturn(c) ==
    /\ pc[c] = "done"
    /\ pc' = [pc EXCEPT ![c] = "idle"]
    /\ op' = [op EXCEPT ![c] = "Batch"]
    /\ texts' = [texts EXCEPT ![c] = <<>>]
    /\ chunkMapping' = [chunkMapping EXCEPT ![callFrame(c)] = <<>>]
    /\ req' = [req EXCEPT ![callFrame(c)] = NoRequest]
    /\ processErr' = [processErr EXCEPT ![c] = NoError]
    /\ ret' = [ret EXCEPT ![callFrame(c)] = NoReturn]
    /\ single' = [single EXCEPT ![c] = NoVector]
    /\ UNCHANGED concurrentFixed

ConcurrentNext ==
    \/ \E c \in Calls, ts \in ConcurrentTextLists \cup {<<>>} : ConcurrentBatch(c, ts)
    \/ \E c \in Calls, ts \in ConcurrentTextLists : ConcurrentEmbed(c, ts[1])
    \/ \E c \in Calls, vectors \in SeqsUpTo(ProviderVectors, 2) : ConcurrentProviderSucceeds(c, vectors)
    \/ \E c \in Calls : ConcurrentProviderFails(c)
    \/ \E c \in Calls : ConcurrentReturn(c)

ConcurrentSpec == ConcurrentInit /\ [][ConcurrentNext]_vars

(***************************************************************************)
(* Direct calls of the Chunker (chunker.go): Chunk and the three strategy  *)
(* functions it dispatches to, applied to texts and chunkers drawn from    *)
(* bounded sets.  A behaviour is one call; the Service is at rest.         *)
(***************************************************************************)
\* the code points of the generated texts
Alphabet == {"a", ".", " ", "\n"}

\* the texts of the package's chunker tests
ThreeSentences ==
    <<"F", "i", "r", "s", "t", " ", "s", "e", "n", "t", "e", "n", "c", "e",
      ".", " ", "S", "e", "c", "o", "n", "d", " ", "s", "e", "n", "t", "e",
      "n", "c", "e", ".", " ", "T", "h", "i", "r", "d", " ", "s", "e", "n",
      "t", "e", "n", "c", "e", ".">>

MixedTerminators ==
    <<"H", "e", "l", "l", "o", "!", " ", "H", "o", "w", " ", "a", "r", "e",
      " ", "y", "o", "u", "?", " ", "I", "'", "m", " ", "f", "i", "n", "e",
      ".">>

DoubleSpace ==
    <<"F", "i", "r", "s", "t", ".", " ", " ", "S", "e", "c", "o", "n", "d",
      ".">>

TwentyChars ==
    <<"1", "2", "3", "4", "5", "6", "7", "8", "9", "0", "1", "2", "3", "4",
      "5", "6", "7", "8", "9", "0">>

ChunkerTexts ==
    SeqsUpTo(Alphabet, MaxLen) \cup {ThreeSentences, MixedTerminators, DoubleSpace, TwentyChars}

\* the chunkers Chunk is called on
ChunkerConfigs ==
    [Strategy : {ChunkNone, ChunkSentence, ChunkParagraph, ChunkFixed},
     MaxSize : {0, 1, 2, 10}, Overlap : {-1, 0, 1, 2}, TrimSpace : BOOLEAN]

\* a Service built without options over a backend without query mode, no
\* call in progress
ServiceAtRest ==
    /\ capable = FALSE
    /\ forQueryCalls = 0
    /\ pipeline = NewServicePipeline(DocHandle, <<>>)
    /\ queryPipeline = pipeline
    /\ chunker = DefaultChunker
    /\ poolingMode = PoolMean
    /\ normalize = TRUE
    /\ pc = "idle"
    /\ op = "Batch"
    /\ texts = <<>>
    /\ chunkMapping = <<>>
    /\ req = NoRequest
    /\ target = pipeline
    /\ processCalls = 0
    /\ attempts = 0
    /\ embedCalls = NoCalls
    /\ ctxCancelled = FALSE
    /\ processErr = NoError
    /\ events = <<>>
    /\ ret = NoReturn
    /\ single = NoVector

ChunkerInit ==
    /\ ServiceAtRest
    /\ applied = NoCall
    /\ result = <<>>
    /\ panicked = FALSE

\* c.Chunk(text)
ChunkerChunk(c, text) ==
    /\ applied' = [fn |-> "Chunk", chunker |-> c, text |-> text]
    /\ result' = Chunk(c, text)
    /\ panicked' = FALSE
    /\ UNCHANGED <<svcVars, callVars>>

\* c.chunkBySentence(text), before the post-processing of Chunk
ChunkerChunkBySentence(c, text) ==
    /\ c.Strategy = ChunkSentence
    /\ applied' = [fn |-> "chunkBySentence", chunker |-> c, text |-> text]
    /\ result' = chunkBySentence(text)
    /\ panicked' = FALSE
    /\ UNCHANGED <<svcVars, callVars>>

\* c.chunkByParagraph(text)
ChunkerChunkByParagraph(c, text) ==
    /\ c.Strategy = ChunkParagraph
    /\ applied' = [fn |-> "chunkByParagraph", chunker |-> c, text |-> text]
    /\ result' = chunkByParagraph(text)
    /\ panicked' = FALSE
    /\ UNCHANGED <<svcVars, callVars>>

\* c.chunkByFixed(text), before the post-processing of Chunk
ChunkerChunkByFixed(c, text) ==
    /\ c.Strategy = ChunkFixed
    /\ applied' = [fn |-> "chunkByFixed", chunker |-> c, text |-> text]
    /\ result' = chunkByFixed(c, text)
    /\ panicked' = FALSE
    /\ UNCHANGED <<svcVars, callVars>>

\* a behaviour is one direct call
ChunkerNext ==
    \/ applied = NoCall /\ \E c \in ChunkerConfigs, text \in ChunkerTexts : ChunkerChunk(c, text)
    \/ applied = NoCall /\ \E c \in ChunkerConfigs, text \in ChunkerTexts : ChunkerChunkBySentence(c, text)
    \/ applied = NoCall /\ \E c \in ChunkerConfigs, text \in ChunkerTexts : ChunkerChunkByParagraph(c, text)
    \/ applied = NoCall /\ \E c \in ChunkerConfigs, text \in ChunkerTexts : ChunkerChunkByFixed(c, text)

ChunkerSpec == ChunkerInit /\ [][ChunkerNext]_vars

(***************************************************************************)
(* chunkByFixed run one pass of its loop at a time.  `result` holds the    *)
(* position of the call: pc, the loop variable i (0-based), the end of the *)
(* last window, and the chunks appended so far.                            *)
(***************************************************************************)
FixedLoopInit ==
    /\ ServiceAtRest
    /\ applied = NoCall
    /\ result = <<>>
    /\ panicked = FALSE

\* chunkByFixed up to the loop: the two early returns, or i := 0
FixedEnter(c, text) ==
    /\ applied' = [fn |-> "chunkByFixed", chunker |-> c, text |-> text]
    /\ result' = IF c.MaxSize <= 0 \/ Len(text) <= c.MaxSize
                  THEN [pc |-> "returned", i |-> 0, end |-> 0, chunks |-> <<text>>]
                  ELSE [pc |-> "loop", i |-> 0, end |-> 0, chunks |-> <<>>]
    /\ UNCHANGED <<svcVars, callVars, panicked>>

\* one pass of the loop body: append the window, break at the end of the
\* text, else i += step
FixedIterate ==
    /\ applied.fn = "chunkByFixed"
    /\ result.pc = "loop"
    /\ result.i < Len(applied.text)
    /\ LET c == applied.chunker
           runes == applied.text
           end == Min(result.i + c.MaxSize, Len(runes))
       IN  result' = [pc |-> IF end = Len(runes) THEN "returned" ELSE "loop",
                      i |-> IF end = Len(runes) THEN result.i ELSE result.i + stepOf(c),
                      end |-> end,
                      chunks |-> Append(result.chunks, Slice(runes, result.i + 1, end))]
    /\ UNCHANGED <<svcVars, callVars, applied, panicked>>

\* the loop condition i < len(runes) fails: return chunks
FixedExit ==
    /\ applied.fn = "chunkByFixed"
    /\ result.pc = "loop"
    /\ result.i >= Len(applied.text)
    /\ result' = [result EXCEPT !.pc = "returned"]
    /\ UNCHANGED <<svcVars, callVars, applied, panicked>>

FixedLoopNext ==
    \/ applied = NoCall /\ \E c \in ChunkerConfigs, text \in ChunkerTexts :
          c.Strategy = ChunkFixed /\ ~c.TrimSpace /\ FixedEnter(c, text)
    \/ FixedIterate
    \/ FixedExit

\* the call runs on: a goroutine that can take a step takes it
FixedLoopSpec == FixedLoopInit /\ [][FixedLoopNext]_vars /\ WF_vars(FixedLoopNext)

(***************************************************************************)
(* Direct calls of Pool and the Vector methods (vector.go), applied to     *)
(* operands drawn from bounded sets.  A behaviour is one call; the Service *)
(* is at rest.                                                             *)
(***************************************************************************)
\* the components of the generated vectors, in fixed-point units
VectorValues == {-30, 0, 30, 40}

\* the vectors of the package's vector tests: {1, 2, 3} and {4, 5}
TestVector3 == <<Scale, 2 * Scale, 3 * Scale>>

TestVector2 == <<4 * Scale, 5 * Scale>>

\* the operands of the Vector methods: every vector of up to MaxDims
\* dimensions, the nil vector included, and the test vectors
Operands ==
    UNION {SeqsOfLen(VectorValues, d) : d \in 0..MaxDims} \cup {TestVector3, TestVector2}

SimilarityMetrics == {Cosine, DotProduct, Euclidean, 99}

\* the lists handed to Pool: up to MaxVectors vectors of one dimension, and
\* the two lists of the documentation, {0,2,4},{2,4,6} and {1,5,3},{4,2,6}
PoolValues == {0, 20, 50}

MeanExample == <<<<0, 2 * Scale, 4 * Scale>>, <<2 * Scale, 4 * Scale, 6 * Scale>>>>

MaxExample == <<<<Scale, 5 * Scale, 3 * Scale>>, <<4 * Scale, 2 * Scale, 6 * Scale>>>>

PoolLists ==
    UNION {SeqsUpTo(SeqsOfLen(PoolValues, d), MaxVectors) : d \in 1..2}
        \cup {MeanExample, MaxExample}

\* the chunk mappings of chunkTexts for n texts and k chunks: text indices in
\* ascending order
ChunkMappings(n, k) ==
    {m \in [1..k -> 1..n] : \A i \in 1..k, j \in 1..k : i <= j => m[i] <= m[j]}

\* lists of vectors of different lengths, the nil vector among them
RaggedVectors == {<<>>, <<20>>, <<50, 0>>}

RaggedLists == SeqsUpTo(RaggedVectors, MaxVectors)

\* the PoolingMode values handed to Pool, one of them unknown
PoolModes == {PoolMean, PoolFirst, PoolMax, 99}

VectorInit ==
    /\ ServiceAtRest
    /\ applied = NoCall
    /\ result = <<>>
    /\ panicked = FALSE

\* Pool(vectors, mode)
CallPool(vectors, mode) ==
    /\ applied' = [fn |-> "Pool", vectors |-> vectors, mode |-> mode]
    /\ panicked' = PoolPanics(vectors, mode)
    /\ result' = IF PoolPanics(vectors, mode) THEN <<>> ELSE Pool(vectors, mode)
    /\ UNCHANGED <<svcVars, callVars>>

\* v.Norm()
CallNorm(v) ==
    /\ applied' = [fn |-> "Norm", v |-> v]
    /\ result' = Norm(v)
    /\ panicked' = FALSE
    /\ UNCHANGED <<svcVars, callVars>>

\* v.Normalize()
CallNormalize(v) ==
    /\ applied' = [fn |-> "Normalize", v |-> v]
    /\ result' = Normalize(v)
    /\ panicked' = FALSE
    /\ UNCHANGED <<svcVars, callVars>>

\* the normalize loop of Batch over the pooled vectors
CallNormalizeAll(vectors, flag) ==
    /\ applied' = [fn |-> "normalizeAll", vectors |-> vectors, flag |-> flag]
    /\ result' = normalizeAll(vectors, flag)
    /\ panicked' = FALSE
    /\ UNCHANGED <<svcVars, callVars>>

\* s.poolChunks(texts, chunkVectors, mapping) for n texts and a response of
\* any number of vectors, fewer or more than the mapping has entries
CallPoolChunks(n, chunkVectors, mapping, mode) ==
    LET ts == [i \in 1..n |-> <<"a">>]
    IN  /\ applied' = [fn |-> "poolChunks", texts |-> ts, chunkVectors |-> chunkVectors,
                        mapping |-> mapping, mode |-> mode]
        /\ panicked' = poolChunksPanics(ts, chunkVectors, mapping)
        /\ result' = IF poolChunksPanics(ts, chunkVectors, mapping) THEN <<>>
                      ELSE poolChunks(ts, chunkVectors, mapping, mode)
        /\ UNCHANGED <<svcVars, callVars>>

\* v.Dot(other)
CallDot(v, other) ==
    /\ applied' = [fn |-> "Dot", v |-> v, other |-> other]
    /\ result' = Dot(v, other)
    /\ panicked' = FALSE
    /\ UNCHANGED <<svcVars, callVars>>

\* v.CosineSimilarity(other)
CallCosineSimilarity(v, other) ==
    /\ applied' = [fn |-> "CosineSimilarity", v |-> v, other |-> other]
    /\ result' = CosineSimilarity(v, other)
    /\ panicked' = FALSE
    /\ UNCHANGED <<svcVars, callVars>>

\* v.EuclideanDistance(other)
CallEuclideanDistance(v, other) ==
    /\ applied' = [fn |-> "EuclideanDistance", v |-> v, other |-> other]
    /\ result' = EuclideanDistance(v, other)
    /\ panicked' = FALSE
    /\ UNCHANGED <<svcVars, callVars>>

\* v.Similarity(other, metric)
CallSimilarity(v, other, metric) ==
    /\ applied' = [fn |-> "Similarity", v |-> v, other |-> other, metric |-> metric]
    /\ result' = Similarity(v, other, metric)
    /\ panicked' = FALSE
    /\ UNCHANGED <<svcVars, callVars>>

\* a behaviour is one direct call
VectorNext ==
    \/ applied = NoCall /\ \E vectors \in PoolLists \cup RaggedLists, mode \in PoolModes :
          CallPool(vectors, mode)
    \/ applied = NoCall /\ \E v \in Operands : CallNorm(v)
    \/ applied = NoCall /\ \E v \in Operands : CallNormalize(v)
    \/ applied = NoCall /\ \E vectors \in PoolLists, flag \in BOOLEAN : CallNormalizeAll(vectors, flag)
    \/ applied = NoCall /\ \E n \in 1..MaxTexts, k \in 0..MaxVectors :
          \E chunkVectors \in SeqsUpTo({<<20>>, <<50>>}, MaxVectors + 1),
             mapping \in ChunkMappings(n, k), mode \in PoolingModes :
             CallPoolChunks(n, chunkVectors, mapping, mode)
    \/ applied = NoCall /\ \E v \in Operands, other \in Operands : CallDot(v, other)
    \/ applied = NoCall /\ \E v \in Operands, other \in Operands : CallCosineSimilarity(v, other)
    \/ applied = NoCall /\ \E v \in Operands, other \in Operands : CallEuclideanDistance(v, other)
    \/ applied = NoCall /\ \E v \in Operands, other \in Operands, metric \in SimilarityMetrics :
          CallSimilarity(v, other, metric)

VectorSpec == VectorInit /\ [][VectorNext]_vars

(***************************************************************************)
(* Vectors as slices.  A Vector is a slice over a backing array: `memory`  *)
(* is the sequence of the arrays allocated so far, a slice is the address  *)
(* (index) of its array, 0 is the nil slice returned for no vector.        *)
(* `return v` returns the address it was given, make(Vector, n) allocates  *)
(* a new array.  Every operation yields the memory after it and what it    *)
(* returned.                                                               *)
(***************************************************************************)
MaxArrays == 2

\* the contents of the arrays a caller holds: empty, zero, and of norm 0.5
ArrayValues == {<<>>, <<0, 0>>, <<30, 40>>}

Memories == SeqsUpTo(ArrayValues, MaxArrays) \ {<<>>}

\* make(Vector, n) filled with the components of v
allocate(memory, v) == [memory |-> Append(memory, v), ret |-> Len(memory) + 1]

\* the vectors the slices of addrs denote
deref(memory, addrs) == [k \in 1..Len(addrs) |-> memory[addrs[k]]]

\* faulty variant of normalizeAt: the components are overwritten in place
normalizeInPlace(memory, a) ==
    [memory |-> [memory EXCEPT ![a] = Normalize(memory[a])], ret |-> a]

\* v.Normalize(): v itself when its norm is 0, else a new array
normalizeAt(memory, a) ==
    IF Norm(memory[a]) = 0 THEN [memory |-> memory, ret |-> a]
    ELSE allocate(memory, Normalize(memory[a]))

\* Pool(vectors, mode): nil, an element of the list, or a new array; a
\* panic leaves the arrays of the caller as they were
poolAt(memory, addrs, mode) ==
    IF Len(addrs) = 0 THEN [memory |-> memory, ret |-> 0]
    ELSE IF Len(addrs) = 1 \/ mode = PoolFirst THEN [memory |-> memory, ret |-> addrs[1]]
    ELSE IF PoolPanics(deref(memory, addrs), mode) THEN [memory |-> memory, ret |-> 0]
    ELSE allocate(memory, Pool(deref(memory, addrs), mode))

\* the addresses of chunkVectors[i..] whose chunk belongs to text textIdx
RECURSIVE groupAt(_, _, _, _)
groupAt(addrs, mapping, textIdx, i) ==
    IF i > Len(addrs) THEN <<>>
    ELSE IF i <= Len(mapping) /\ mapping[i] = textIdx
         THEN <<addrs[i]>> \o groupAt(addrs, mapping, textIdx, i + 1)
         ELSE groupAt(addrs, mapping, textIdx, i + 1)

\* the pooling loop of poolChunks from text i on: result[i] = Pool(vecs, mode)
\* for a group that is not empty, nil otherwise
RECURSIVE poolChunksAt(_, _, _, _, _, _, _)
poolChunksAt(memory, n, addrs, mapping, mode, i, slots) ==
    IF i > n THEN [memory |-> memory, ret |-> slots]
    ELSE LET vecs == groupAt(addrs, mapping, i, 1)
             pooled == IF Len(vecs) > 0 THEN poolAt(memory, vecs, mode)
                       ELSE [memory |-> memory, ret |-> 0]
         IN  poolChunksAt(pooled.memory, n, addrs, mapping, mode, i + 1,
                          Append(slots, pooled.ret))

\* the normalize loop of Batch from slot i on: vectors[i] = v.Normalize()
RECURSIVE normalizeAllAt(_, _, _)
normalizeAllAt(memory, slots, i) ==
    IF i > Len(slots) THEN [memory |-> memory, ret |-> slots]
    ELSE IF slots[i] = 0 THEN normalizeAllAt(memory, slots, i + 1)
    ELSE LET normalized == normalizeAt(memory, slots[i])
         IN  normalizeAllAt(normalized.memory, [slots EXCEPT ![i] = normalized.ret], i + 1)

\* what Batch does with the response vectors: regroup, pool, normalize
batchVectorsAt(memory, n, addrs, mapping, mode, flag) ==
    LET pooled == poolChunksAt(memory, n, addrs, mapping, mode, 1, <<>>)
    IN  IF flag THEN normalizeAllAt(pooled.memory, pooled.ret, 1) ELSE pooled

AliasInit ==
    /\ ServiceAtRest
    /\ applied = NoCall
    /\ result = <<>>
    /\ panicked = FALSE

\* memory[a].Normalize()
CallNormalizeAt(memory, a) ==
    /\ applied' = [fn |-> "Normalize", memory |-> memory, v |-> a]
    /\ result' = normalizeAt(memory, a)
    /\ panicked' = FALSE
    /\ UNCHANGED <<svcVars, callVars>>

\* Pool(vectors, mode) over the slices addrs
CallPoolAt(memory, addrs, mode) ==
    /\ applied' = [fn |-> "Pool", memory |-> memory, vectors |-> addrs, mode |-> mode]
    /\ result' = poolAt(memory, addrs, mode)
    /\ panicked' = (Len(addrs) >= 2 /\ PoolPanics(deref(memory, addrs), mode))
    /\ UNCHANGED <<svcVars, callVars>>

\* memory[a].Dot(memory[b]), CosineSimilarity, EuclideanDistance: the
\* operands are read, a number is returned
CallMeasureAt(memory, a, b, metric) ==
    /\ applied' = [fn |-> "Similarity", memory |-> memory, v |-> a, other |-> b,
                    metric |-> metric]
    /\ result' = [memory |-> memory,
                   ret |-> CASE metric = Cosine -> CosineSimilarity(memory[a], memory[b])
                             [] metric = DotProduct -> Dot(memory[a], memory[b])
                             [] metric = Euclidean -> EuclideanDistance(memory[a], memory[b])]
    /\ panicked' = FALSE
    /\ UNCHANGED <<svcVars, callVars>>

\* Batch from the response on: the response vectors are the arrays of memory
CallBatchVectorsAt(memory, n, mapping, mode, flag) ==
    LET addrs == [k \in 1..Len(memory) |-> k]
    IN  /\ applied' = [fn |-> "Batch", memory |-> memory, texts |-> n, vectors |-> addrs,
                        mapping |-> mapping, mode |-> mode, normalize |-> flag]
        /\ result' = batchVectorsAt(memory, n, addrs, mapping, mode, flag)
        /\ panicked' = \E i \in 1..n :
                           LET vecs == groupAt(addrs, mapping, i, 1)
                           IN  Len(vecs) >= 2 /\ PoolPanics(deref(memory, vecs), mode)
        /\ UNCHANGED <<svcVars, callVars>>

AliasNext ==
    \/ applied = NoCall /\ \E memory \in Memories : \E a \in 1..Len(memory) :
          CallNormalizeAt(memory, a)
    \/ applied = NoCall /\ \E memory \in Memories :
          \E addrs \in SeqsUpTo(1..Len(memory), MaxVectors), mode \in PoolModes :
             CallPoolAt(memory, addrs, mode)
    \/ applied = NoCall /\ \E memory \in Memories :
          \E a \in 1..Len(memory), b \in 1..Len(memory),
             metric \in {Cosine, DotProduct, Euclidean} :
             CallMeasureAt(memory, a, b, metric)
    \/ applied = NoCall /\ \E memory \in Memories, n \in 1..MaxTexts :
          \E mapping \in ChunkMappings(n, Len(memory)), mode \in PoolingModes,
             flag \in BOOLEAN :
             CallBatchVectorsAt(memory, n, mapping, mode, flag)

AliasSpec == AliasInit /\ [][AliasNext]_vars

(***************************************************************************)
(* The providers with an embedding mode: cohere, voyage, gemini.  A        *)
(* *Provider is the address of a Provider struct; `providers` is the       *)
(* sequence of the structs allocated so far.  The state of this            *)
(* specification is in `result`: the structs, and what the last call       *)
(* returned.                                                               *)
(***************************************************************************)
MaxProviders == 3

Vendors == {"cohere", "voyage", "gemini"}

\* the InputType / TaskType constants of a provider package
InputTypes(vendor) ==
    CASE vendor = "cohere" -> {"search_document", "search_query", "classification", "clustering"}
      [] vendor = "voyage" -> {"document", "query"}
      [] vendor = "gemini" -> {"RETRIEVAL_QUERY", "RETRIEVAL_DOCUMENT", "SEMANTIC_SIMILARITY",
                               "CLASSIFICATION", "CLUSTERING"}

\* the mode New sets when the Config names none
DocumentType(vendor) ==
    CASE vendor = "cohere" -> "search_document"
      [] vendor = "voyage" -> "document"
      [] vendor = "gemini" -> "RETRIEVAL_DOCUMENT"

\* the mode ForQuery asks for
QueryType(vendor) ==
    CASE vendor = "cohere" -> "search_query"
      [] vendor = "voyage" -> "query"
      [] vendor = "gemini" -> "RETRIEVAL_QUERY"

\* New(config)
New(vendor, inputType) ==
    [vendor |-> vendor, inputType |-> IF inputType = "" THEN DocumentType(vendor) ELSE inputType]

\* faulty variant of WithInputType: the mode of the receiver is overwritten
WithInputTypeInPlace(providers, p, inputType) ==
    [providers |-> [providers EXCEPT ![p].inputType = inputType], ret |-> p]

\* p.WithInputType(inputType), gemini's p.WithTaskType(taskType): newP := *p,
\* newP.inputType = inputType, return &newP
WithInputType(providers, p, inputType) ==
    [providers |-> Append(providers, [providers[p] EXCEPT !.inputType = inputType]),
     ret |-> Len(providers) + 1]

\* p.ForQuery()
ProviderForQuery(providers, p) == WithInputType(providers, p, QueryType(providers[p].vendor))

ProviderInit ==
    /\ ServiceAtRest
    /\ \E vendor \in Vendors : \E inputType \in InputTypes(vendor) \cup {""} :
          /\ applied = [fn |-> "New", vendor |-> vendor, inputType |-> inputType]
          /\ result = [providers |-> <<New(vendor, inputType)>>, ret |-> 1]
    /\ panicked = FALSE

CallWithInputType(p, inputType) ==
    /\ Len(result.providers) < MaxProviders
    /\ applied' = [fn |-> "WithInputType", p |-> p, inputType |-> inputType]
    /\ result' = WithInputType(result.providers, p, inputType)
    /\ UNCHANGED <<svcVars, callVars, panicked>>

CallForQuery(p) ==
    /\ Len(result.providers) < MaxProviders
    /\ applied' = [fn |-> "ForQuery", p |-> p]
    /\ result' = ProviderForQuery(result.providers, p)
    /\ UNCHANGED <<svcVars, callVars, panicked>>

\* p.Embed(ctx, texts) with texts: the mode the request body carries
CallProviderEmbed(p) ==
    /\ applied' = [fn |-> "Embed", p |-> p]
    /\ result' = [providers |-> result.providers, ret |-> result.providers[p].inputType]
    /\ UNCHANGED <<svcVars, callVars, panicked>>

ProviderNext ==
    \/ \E p \in 1..Len(result.providers) :
          \E inputType \in InputTypes(result.providers[p].vendor) : CallWithInputType(p, inputType)
    \/ \E p \in 1..Len(result.providers) : CallForQuery(p)
    \/ \E p \in 1..Len(result.providers) : CallProviderEmbed(p)

ProviderSpec == ProviderInit /\ [][ProviderNext]_vars

(***************************************************************************)
(* NewService called directly with every list of up to MaxOptions options. *)
(***************************************************************************)
MaxOptions == 3

\* WithRetry, WithBackoff, WithTimeout, WithCircuitBreaker, WithRateLimit
Options ==
    {[kind |-> "retry", maxAttempts |-> RetryAttempts],
     [kind |-> "backoff", maxAttempts |-> RetryAttempts],
     [kind |-> "timeout", maxAttempts |-> 1],
     [kind |-> "circuit-breaker", maxAttempts |-> 1],
     [kind |-> "rate-limit", maxAttempts |-> 1]}

ConstructInit ==
    /\ ServiceAtRest
    /\ applied = NoCall
    /\ result = <<>>
    /\ panicked = FALSE

\* NewService(provider, opts...): the pipeline of the Service it returns
CallNewService(opts) ==
    /\ applied' = [fn |-> "NewService", opts |-> opts]
    /\ result' = NewServicePipeline(DocHandle, opts)
    /\ panicked' = FALSE
    /\ UNCHANGED <<svcVars, callVars>>

ConstructNext ==
    applied = NoCall /\ \E opts \in SeqsUpTo(Options, MaxOptions) : CallNewService(opts)

ConstructSpec == ConstructInit /\ [][ConstructNext]_vars

(***************************************************************************)
(* Reference definitions for the properties below: what a call is to       *)
(* return, stated from the texts, the chunker and the provider's response  *)
(* alone, without the chunk mapping.                                       *)
(***************************************************************************)
DocumentOps == {"Batch", "Embed"}
QueryOps == {"BatchQuery", "EmbedQuery"}

\* the number of chunks text i yields
ChunkCount(i) == Len(Chunk(chunker, texts[i]))

\* the number of chunks the texts before text i yield
RECURSIVE ChunksBefore(_)
ChunksBefore(i) == IF i <= 1 THEN 0 ELSE ChunksBefore(i - 1) + ChunkCount(i - 1)

\* the response is non-empty and parallel to the submitted chunks
ParallelResponse ==
    /\ ~req.Response.isNil
    /\ Len(req.Response.Vectors) > 0
    /\ Len(req.Response.Vectors) = Len(req.Texts)

\* the response is missing or holds no vector
EmptyResponse == req.Response.isNil \/ Len(req.Response.Vectors) = 0

ExpectedSlot(i) ==
    LET own == SubSeq(req.Response.Vectors, ChunksBefore(i) + 1, ChunksBefore(i) + ChunkCount(i))
        pooled == Pool(own, poolingMode)
    IN  IF normalize THEN Normalize(pooled) ELSE pooled

\* what a Batch of `texts` returns for the outcome the pipeline reported
ExpectedBatch ==
    IF processErr # NoError THEN [vecs |-> <<>>, err |-> processErr]
    ELSE IF EmptyResponse THEN [vecs |-> <<>>, err |-> NoError]
    ELSE [vecs |-> [i \in 1..Len(texts) |-> ExpectedSlot(i)], err |-> NoError]

\* what the single-text form returns for a batch result
ExpectedSingle(batch) ==
    IF batch.err # NoError THEN [vec |-> <<>>, err |-> batch.err]
    ELSE IF batch.vecs = <<>> THEN [vec |-> <<>>, err |-> NoError]
    ELSE [vec |-> Head(batch.vecs), err |-> NoError]

\* a call on a non-empty list has returned
Returned(ops) == pc = "done" /\ op \in ops /\ Len(texts) > 0

(***************************************************************************)
(* C1.  A Batch whose pipeline succeeded with a non-empty response         *)
(* parallel to the chunks returns one slot per input text, in input order: *)
(* slot i is Pool(mode) of the vectors of text i's chunks in emission      *)
(* order, normalized when the flag is set, and it is absent exactly when   *)
(* text i produced no chunk.                                               *)
(***************************************************************************)
C1_OneSlotPerText ==
    (Returned(DocumentOps) /\ processErr = NoError /\ ParallelResponse) =>
        /\ ret.err = NoError
        /\ Len(ret.vecs) = Len(texts)
        /\ \A i \in 1..Len(texts) :
              /\ ret.vecs[i] = ExpectedSlot(i)
              /\ (ret.vecs[i] = <<>>) <=> (ChunkCount(i) = 0)

\* a two-text Batch returned: the first text gave two chunks with different
\* vectors, the second gave none
C1_Witness ==
    /\ Returned({"Batch"}) /\ processErr = NoError /\ ParallelResponse
    /\ Len(texts) = 2
    /\ ChunkCount(1) = 2 /\ ChunkCount(2) = 0
    /\ req.Response.Vectors[1] # req.Response.Vectors[2]
    /\ ret.vecs[1] # <<>>

(***************************************************************************)
(* C2.  Whenever Batch or Embed returns an error, the vector result        *)
(* returned with it is nil.                                                *)
(***************************************************************************)
C2_NoVectorsWithError ==
    (pc = "done" /\ op \in DocumentOps) =>
        /\ ret.err # NoError => ret.vecs = <<>>
        /\ single.err # NoError => single.vec = <<>>

\* an Embed returned the provider's error
C2_Witness ==
    /\ Returned({"Embed"})
    /\ processErr = ProviderError
    /\ single.err = ProviderError
    /\ ret.err = ProviderError

(***************************************************************************)
(* C3.  The error Batch returns for a pipeline error is wrapped with the   *)
(* backend name and the correlation id of the call.                        *)
(***************************************************************************)
C3_ErrorCarriesContext ==
    (Returned(DocumentOps) /\ ret.err # NoError) =>
        /\ ret.err.provider = req.Provider
        /\ ret.err.requestID = req.RequestID

(***************************************************************************)
(* C4.  A Batch on an empty text list returns no vectors and no error,     *)
(* without a request, a pipeline call or a provider call.                  *)
(***************************************************************************)
C4_EmptyInput ==
    (pc = "done" /\ op = "Batch" /\ Len(texts) = 0) =>
        /\ ret = [vecs |-> <<>>, err |-> NoError]
        /\ ~req.created
        /\ processCalls = 0
        /\ \A h \in Handles : embedCalls[h] = 0

\* a Batch on the empty list returned
C4_Witness == pc = "done" /\ op = "Batch" /\ texts = <<>> /\ ret.err = NoError

(***************************************************************************)
(* C5.  When the pipeline succeeds with a missing or empty response,       *)
(* Batch returns (nil, nil) and Embed returns (nil, nil).                  *)
(***************************************************************************)
C5_EmptyResponse ==
    (Returned(DocumentOps) /\ processErr = NoError /\ EmptyResponse) =>
        /\ ret = [vecs |-> <<>>, err |-> NoError]
        /\ op = "Embed" => single = [vec |-> <<>>, err |-> NoError]

\* an Embed whose text was submitted as one chunk got a response without vectors
C5_Witness ==
    /\ Returned({"Embed"}) /\ processErr = NoError
    /\ Len(req.Texts) = 1
    /\ ~req.Response.isNil /\ req.Response.Vectors = <<>>
    /\ single.vec = <<>>

(***************************************************************************)
(* C6.  A Batch on a non-empty list hands exactly one request to           *)
(* pipeline.Process, also when no text produced a chunk, and a Service     *)
(* built without options calls provider.Embed exactly once for it,         *)
(* whether the call succeeds or fails.                                     *)
(***************************************************************************)
C6_SingleDispatch ==
    /\ (pc \in {"inflight", "done"} /\ op \in DocumentOps /\ Len(texts) > 0) =>
          /\ processCalls = 1
          /\ req.created
    /\ (Returned(DocumentOps) /\ pipeline.stages = <<>>) =>
          /\ embedCalls[DocHandle] = 1
          /\ embedCalls[QueryHandle] = 0

\* a Batch without options whose texts gave no chunk at all was dispatched
\* once, with an empty chunk list, and the provider failed
C6_Witness ==
    /\ Returned({"Batch"}) /\ pipeline.stages = <<>>
    /\ req.Texts = <<>>
    /\ ret.err = ProviderError
    /\ embedCalls[DocHandle] = 1

(***************************************************************************)
(* C7.  A Batch whose context was cancelled while the pipeline call was in *)
(* flight returns a cancellation-kind error and no vectors.                *)
(***************************************************************************)
C7_CancelledReturnsCancellation ==
    (Returned(DocumentOps) /\ ctxCancelled) =>
        /\ ret.err.kind = "canceled"
        /\ ret.vecs = <<>>

(***************************************************************************)
(* C8.  Embed(text) is Batch of the one-element list [text]: it returns    *)
(* that batch's error with a nil vector, nil without error when the batch  *)
(* produced no vector list, and slot 0 of the batch result otherwise, and  *)
(* it makes no provider call of its own.                                   *)
(***************************************************************************)
C8_EmbedIsBatchOfOne ==
    (pc = "done" /\ op = "Embed") =>
        /\ Len(texts) = 1
        /\ processCalls = 1
        /\ embedCalls[DocHandle] = attempts
        /\ ret = ExpectedBatch
        /\ single = ExpectedSingle(ExpectedBatch)

\* an Embed of a text that gave two chunks returned the pooled vector
C8_Witness ==
    /\ pc = "done" /\ op = "Embed"
    /\ Len(req.Texts) = 2
    /\ processErr = NoError /\ ParallelResponse
    /\ single.vec # <<>>
    /\ single.vec = ret.vecs[1]

C11_MappingParallelToChunks ==
    (pc \in {"inflight", "done"} /\ req.created) =>
        /\ Len(chunkMapping) = Len(req.Texts)
        /\ Len(req.Texts) = ChunksBefore(Len(texts) + 1)
        /\ \A i \in 1..Len(texts) : \A j \in 1..ChunkCount(i) :
              /\ req.Texts[ChunksBefore(i) + j] = Chunk(chunker, texts[i])[j]
              /\ chunkMapping[ChunksBefore(i) + j] = i
        /\ \A k \in 1..(Len(chunkMapping) - 1) : chunkMapping[k] <= chunkMapping[k + 1]

\* a two-text call in flight: the first text gave no chunk, the second two
C11_Witness ==
    /\ pc = "inflight" /\ req.created
    /\ Len(texts) = 2
    /\ ChunkCount(1) = 0 /\ ChunkCount(2) = 2
    /\ chunkMapping = <<2, 2>>
    /\ req.Texts[1] # req.Texts[2]

(***************************************************************************)
(* C12.  Concurrent Batch / Embed calls on one Service do not interfere:   *)
(* no step of a call changes the Service's configuration; the request a    *)
(* call dispatches carries the chunks of its own texts and its mapping is  *)
(* its own; and under every interleaving the call returns what it returns  *)
(* when run alone on the response the provider gave it, one slot per text  *)
(* of its own input, in input order.                                       *)
(***************************************************************************)
\* the chunks of the texts ts alone, text by text
RECURSIVE AloneChunks(_, _)
AloneChunks(ts, i) ==
    IF i > Len(ts) THEN <<>> ELSE Chunk(chunker, ts[i]) \o AloneChunks(ts, i + 1)

\* the number of chunks the texts before text i of ts yield
RECURSIVE AloneChunksBefore(_, _)
AloneChunksBefore(ts, i) ==
    IF i <= 1 THEN 0 ELSE AloneChunksBefore(ts, i - 1) + Len(Chunk(chunker, ts[i - 1]))

AloneSlot(ts, vectors, i) ==
    LET before == AloneChunksBefore(ts, i)
        own == SubSeq(vectors, before + 1, before + Len(Chunk(chunker, ts[i])))
    IN  IF normalize THEN Normalize(Pool(own, poolingMode)) ELSE Pool(own, poolingMode)

\* what Batch(ts) returns, run alone, when the pipeline reports (response, err)
AloneBatch(ts, response, err) ==
    IF Len(ts) = 0 THEN [vecs |-> <<>>, err |-> NoError]
    ELSE IF err # NoError THEN [vecs |-> <<>>, err |-> err]
    ELSE IF response.isNil \/ Len(response.Vectors) = 0 THEN [vecs |-> <<>>, err |-> NoError]
    ELSE [vecs |-> [i \in 1..Len(ts) |-> AloneSlot(ts, response.Vectors, i)], err |-> NoError]

C12_CallIsolated(c) ==
    /\ (pc[c] \in {"inflight", "done"} /\ Len(texts[c]) > 0) =>
          /\ req[c].created
          /\ req[c].Texts = AloneChunks(texts[c], 1)
          /\ Len(chunkMapping[c]) = Len(req[c].Texts)
          /\ \A i \in 1..Len(texts[c]) : \A j \in 1..Len(Chunk(chunker, texts[c][i])) :
                chunkMapping[c][AloneChunksBefore(texts[c], i) + j] = i
    /\ pc[c] = "done" =>
          /\ ret[c] = AloneBatch(texts[c], req[c].Response, processErr[c])
          /\ op[c] = "Embed" => single[c] = ExpectedSingle(ret[c])
          /\ (ret[c].vecs # <<>>) => Len(ret[c].vecs) = Len(texts[c])

C12_ConcurrentCallsIndependent ==
    /\ [](\A c \in Calls : C12_CallIsolated(c))
    /\ [][svcVars' = svcVars]_vars

\* call 1 has returned the vectors of its two texts while call 2, a call on
\* other texts with another mapping, is in flight
C12_Witness ==
    /\ pc[1] = "done" /\ pc[2] = "inflight"
    /\ Len(texts[1]) = 2 /\ Len(texts[2]) = 2
    /\ texts[1] # texts[2]
    /\ chunkMapping[1] = <<1, 1>> /\ chunkMapping[2] = <<2, 2>>
    /\ Len(ret[1].vecs) = 2 /\ ret[1].vecs[1] # <<>> /\ ret[1].vecs[2] = <<>>

(***************************************************************************)
(* C13.  After pipeline.Process the request carries either an error or a   *)
(* response, never both and never neither: Error nil and Response set      *)
(* after a successful Process, Error set and Response nil after a failed   *)
(* one, also when an earlier attempt on the request failed before a later  *)
(* one succeeded.                                                          *)
(***************************************************************************)
C13_ErrorXorResponse ==
    (pc = "done" /\ req.created) =>
        /\ processErr = NoError => (req.Error = NoError /\ ~req.Response.isNil)
        /\ processErr # NoError => (req.Error # NoError /\ req.Response.isNil)

(***************************************************************************)
(* C14.  With WithRetry(n) as the only option a Batch / Embed call makes   *)
(* at most n provider calls and stops at the first success: after k < n    *)
(* failures followed by a success it has made exactly k + 1 calls, and     *)
(* when every attempt fails (and the caller did not cancel) it returns the *)
(* error after exactly n calls.                                            *)
(***************************************************************************)
\* how often the signal sig was emitted during the call
CountSignal(sig) == Cardinality({k \in 1..Len(events) : events[k].sig = sig})

\* the Service was built with WithRetry as its only option
OnlyRetry == Len(pipeline.stages) = 1 /\ pipeline.stages[1].kind = "retry"

C15_NoneReturnsTextUnmodified ==
    applied.fn = "Chunk" =>
        /\ applied.chunker.Strategy = ChunkNone => result = <<applied.text>>
        /\ (applied.chunker.Strategy \in {ChunkSentence, ChunkParagraph, ChunkFixed}
              /\ applied.text = <<>>) => result = <<>>

\* Chunk under None, trim flag set, on a text of white space only
C15_Witness ==
    /\ applied.fn = "Chunk"
    /\ applied.chunker.Strategy = ChunkNone /\ applied.chunker.TrimSpace
    /\ applied.text = <<" ", "\n">>
    /\ result = <<<<" ", "\n">>>>

(***************************************************************************)
(* C16.  chunkBySentence, before post-processing, ends a chunk right after *)
(* code point i exactly when that code point is '.', '!' or '?' and is the *)
(* last one or is followed by white space; a remainder without terminator  *)
(* is the final chunk.  So every chunk is non-empty, the chunks            *)
(* concatenated are the text, and the three-sentence text of the tests     *)
(* gives exactly 3 chunks under Chunk with trimming.                       *)
(***************************************************************************)
RECURSIVE Concat(_)
Concat(chunks) == IF chunks = <<>> THEN <<>> ELSE Head(chunks) \o Concat(Tail(chunks))

\* the position in the text of the last code point of chunk k
RECURSIVE EndOfChunk(_, _)
EndOfChunk(chunks, k) == IF k = 0 THEN 0 ELSE EndOfChunk(chunks, k - 1) + Len(chunks[k])

\* a sentence ends right after code point i of text
SentenceBoundary(text, i) ==
    /\ text[i] \in {".", "!", "?"}
    /\ (i = Len(text) \/ text[i + 1] \in {" ", "\n", "\t"})

C16_SentenceBoundaries ==
    /\ applied.fn = "chunkBySentence" =>
          LET text == applied.text
              n == Len(text)
          IN  /\ \A k \in 1..Len(result) : result[k] # <<>>
              /\ Concat(result) = text
              /\ {EndOfChunk(result, k) : k \in 1..Len(result)}
                    = {i \in 1..n : SentenceBoundary(text, i)} \cup (IF n > 0 THEN {n} ELSE {})
    /\ (applied.fn = "Chunk" /\ applied.chunker.Strategy = ChunkSentence
          /\ applied.chunker.TrimSpace /\ applied.text = ThreeSentences) => Len(result) = 3

\* chunkBySentence of ".a. ": the first period is followed by a letter and
\* does not split, the second is followed by a space and does, and the
\* space is the remainder
C16_Witness ==
    /\ applied.fn = "chunkBySentence"
    /\ applied.text = <<".", "a", ".", " ">>
    /\ result = <<<<".", "a", ".">>, <<" ">>>>

(***************************************************************************)
(* C17.  Chunk under Fixed with trimming off: when maxSize <= 0 or the     *)
(* text has at most maxSize code points the result is the whole text as    *)
(* one chunk, except that the empty text gives no chunk; otherwise chunk k *)
(* is the window [k*step, min(k*step + maxSize, n)) with step = maxSize -  *)
(* overlap, or maxSize when overlap >= maxSize, up to the first window     *)
(* that reaches the end, a window without code points (one starting at or  *)
(* beyond the end, which a negative overlap allows) giving no chunk.  So   *)
(* no chunk is longer than maxSize, all but the last have exactly maxSize  *)
(* code points, consecutive chunks share exactly overlap code points when  *)
(* 0 <= overlap < maxSize, and the 20-character text with maxSize 10 and   *)
(* overlap 0 gives 2 chunks of length 10.                                  *)
(***************************************************************************)
\* a window that holds at least one code point
NonEmptyWindow(window) == window # <<>>

FixedStep(c) == IF c.Overlap >= c.MaxSize THEN c.MaxSize ELSE c.MaxSize - c.Overlap

\* the 0-based index of the first window that reaches the end of n code points
FirstWindowAtEnd(c, n) ==
    CHOOSE k \in 0..n :
        /\ k * FixedStep(c) + c.MaxSize >= n
        /\ \A j \in 0..(k - 1) : j * FixedStep(c) + c.MaxSize < n

FixedWindows(c, text) ==
    [k \in 1..(FirstWindowAtEnd(c, Len(text)) + 1) |->
        SubSeq(text, (k - 1) * FixedStep(c) + 1,
               Min((k - 1) * FixedStep(c) + c.MaxSize, Len(text)))]

\* what the windows imply for the chunks of the result
FixedChunksShape(c) ==
    /\ \A k \in 1..Len(result) : Len(result[k]) <= c.MaxSize
    /\ \A k \in 1..(Len(result) - 1) : Len(result[k]) = c.MaxSize
    /\ (0 <= c.Overlap /\ c.Overlap < c.MaxSize) =>
          \A k \in 1..(Len(result) - 1) :
              /\ Len(result[k + 1]) > c.Overlap
              /\ SubSeq(result[k], c.MaxSize - c.Overlap + 1, c.MaxSize)
                    = SubSeq(result[k + 1], 1, c.Overlap)

FixedTwentyChars(c) ==
    (applied.text = TwentyChars /\ c.MaxSize = 10 /\ c.Overlap = 0) =>
        (Len(result) = 2 /\ Len(result[1]) = 10 /\ Len(result[2]) = 10)

\* the statement without the exceptions: every window, empty or not, is a chunk
C17_FixedWholeTextAlwaysOneChunk ==
    (applied.fn = "Chunk" /\ applied.chunker.Strategy = ChunkFixed /\ ~applied.chunker.TrimSpace) =>
        LET c == applied.chunker
            text == applied.text
        IN  IF c.MaxSize <= 0 \/ Len(text) <= c.MaxSize
            THEN result = <<text>>
            ELSE /\ result = FixedWindows(c, text)
                 /\ FixedChunksShape(c)
                 /\ FixedTwentyChars(c)

C17_FixedWindows ==
    (applied.fn = "Chunk" /\ applied.chunker.Strategy = ChunkFixed /\ ~applied.chunker.TrimSpace) =>
        LET c == applied.chunker
            text == applied.text
        IN  IF c.MaxSize <= 0 \/ Len(text) <= c.MaxSize
            THEN result = IF text = <<>> THEN <<>> ELSE <<text>>
            ELSE /\ result = SelectSeq(FixedWindows(c, text), NonEmptyWindow)
                 /\ FixedChunksShape(c)
                 /\ FixedTwentyChars(c)

\* Chunk under Fixed, maxSize 2, overlap 1, trimming off, on a text of four
\* code points: three windows, each sharing one code point with the next
C17_Witness ==
    /\ applied.fn = "Chunk"
    /\ applied.chunker.Strategy = ChunkFixed /\ ~applied.chunker.TrimSpace
    /\ applied.chunker.MaxSize = 2 /\ applied.chunker.Overlap = 1
    /\ applied.text = <<"a", ".", " ", "\n">>
    /\ result = <<<<"a", ".">>, <<".", " ">>, <<" ", "\n">>>>

(***************************************************************************)
(* C18.  For every strategy but None the result of Chunk has no empty      *)
(* chunk; with the trim flag set no chunk begins or ends with white space; *)
(* with the trim flag not set the chunks of Sentence and Fixed come back   *)
(* with their white space untouched, only exactly empty chunks being       *)
(* dropped; the surviving chunks keep their relative order.                *)
(***************************************************************************)
NonEmptyChunk(chunk) == chunk # <<>>

\* the chunks of the strategy before the post-processing of Chunk
RawChunks(c, text) ==
    CASE c.Strategy = ChunkSentence -> chunkBySentence(text)
      [] c.Strategy = ChunkParagraph -> chunkByParagraph(text)
      [] c.Strategy = ChunkFixed -> chunkByFixed(c, text)

\* a chunk without its leading and trailing white space
Stripped(chunk) ==
    LET solid == {k \in 1..Len(chunk) : chunk[k] \notin {" ", "\n", "\t"}}
    IN  IF solid = {} THEN <<>>
        ELSE SubSeq(chunk, CHOOSE k \in solid : \A j \in solid : k <= j,
                    CHOOSE k \in solid : \A j \in solid : k >= j)

C18_PostProcessing ==
    (applied.fn = "Chunk" /\ applied.chunker.Strategy \in {ChunkSentence, ChunkParagraph, ChunkFixed}) =>
        LET c == applied.chunker
            raw == RawChunks(c, applied.text)
        IN  /\ \A k \in 1..Len(result) : result[k] # <<>>
            /\ c.TrimSpace =>
                  /\ \A k \in 1..Len(result) :
                        /\ result[k][1] \notin {" ", "\n", "\t"}
                        /\ result[k][Len(result[k])] \notin {" ", "\n", "\t"}
                  /\ result = SelectSeq([k \in 1..Len(raw) |-> Stripped(raw[k])], NonEmptyChunk)
            /\ (~c.TrimSpace /\ c.Strategy \in {ChunkSentence, ChunkFixed}) =>
                  result = SelectSeq(raw, NonEmptyChunk)

\* Chunk under Sentence with the trim flag set on " a. ": the first chunk
\* loses its leading space, the second, white space only, is dropped
C18_Witness ==
    /\ applied.fn = "Chunk"
    /\ applied.chunker.Strategy = ChunkSentence /\ applied.chunker.TrimSpace
    /\ applied.text = <<" ", "a", ".", " ">>
    /\ result = <<<<"a", ".">>>>

(***************************************************************************)
(* C19.  Pool agrees with its reference for every list of vectors of one   *)
(* dimension and every mode: no vector for the empty list; the vector      *)
(* itself, unchanged, for a list of one, whatever the mode; for two or     *)
(* more, the element-wise mean (Mean, and any unknown mode), the           *)
(* element-wise maximum (Max), or the first vector (First).  Mean of       *)
(* {0,2,4},{2,4,6} is {1,3,5} and Max of {1,5,3},{4,2,6} is {4,5,6}.       *)
(***************************************************************************)
RECURSIVE ColumnSum(_, _, _)
ColumnSum(vectors, i, k) ==
    IF k = 0 THEN 0 ELSE ColumnSum(vectors, i, k - 1) + vectors[k][i]

\* r is the element-wise mean of the vectors, each element to the nearest unit
IsMean(r, vectors) ==
    /\ Len(r) = Len(vectors[1])
    /\ \A i \in 1..Len(r) :
          LET n == Len(vectors)
              d == n * r[i] - ColumnSum(vectors, i, n)
          IN  2 * d <= n /\ -2 * d <= n

\* r is the element-wise maximum of the vectors
IsMax(r, vectors) ==
    /\ Len(r) = Len(vectors[1])
    /\ \A i \in 1..Len(r) :
          /\ \E k \in 1..Len(vectors) : r[i] = vectors[k][i]
          /\ \A k \in 1..Len(vectors) : r[i] >= vectors[k][i]

\* the vectors have one dimension
OneDimension(vectors) == \A k \in 1..Len(vectors) : Len(vectors[k]) = Len(vectors[1])

C19_PoolAgreesWithReference ==
    (applied.fn = "Pool" /\ OneDimension(applied.vectors)) =>
        LET vectors == applied.vectors
            mode == applied.mode
        IN  /\ Len(vectors) = 0 => result = <<>>
            /\ Len(vectors) = 1 => result = vectors[1]
            /\ Len(vectors) >= 2 =>
                  CASE mode = PoolFirst -> result = vectors[1]
                    [] mode = PoolMax -> IsMax(result, vectors)
                    [] OTHER -> IsMean(result, vectors)
            /\ (vectors = MeanExample /\ mode = PoolMean) => result = <<Scale, 3 * Scale, 5 * Scale>>
            /\ (vectors = MaxExample /\ mode = PoolMax) => result = <<4 * Scale, 5 * Scale, 6 * Scale>>

\* Pool with an unknown mode on three different vectors returned their mean
C19_Witness ==
    /\ applied.fn = "Pool"
    /\ applied.mode = 99
    /\ applied.vectors = <<<<0, 50>>, <<20, 50>>, <<50, 20>>>>
    /\ result = <<23, 40>>

(***************************************************************************)
(* C20.  The Vector operations return fixed sentinels on degenerate        *)
(* operands: for vectors of different lengths Dot is 0, CosineSimilarity   *)
(* is 0 and EuclideanDistance is MaxFloat64; CosineSimilarity is 0 when an *)
(* operand has zero norm; Similarity with the Euclidean metric is          *)
(* 1 / (1 + distance) with distance >= 0, a value from 0 to 1, for every   *)
(* pair, vectors of different lengths included.                            *)
(***************************************************************************)
ZeroVector(v) == \A i \in 1..Len(v) : v[i] = 0

C20_DegenerateOperands ==
    /\ (applied.fn = "Dot" /\ Len(applied.v) # Len(applied.other)) => result = 0
    /\ (applied.fn = "CosineSimilarity"
          /\ (Len(applied.v) # Len(applied.other) \/ ZeroVector(applied.v) \/ ZeroVector(applied.other)))
            => result = 0
    /\ (applied.fn = "EuclideanDistance" /\ Len(applied.v) # Len(applied.other))
            => result = MaxFloat64
    /\ applied.fn = "EuclideanDistance" => (result >= 0 /\ result <= MaxFloat64)
    /\ (applied.fn = "Similarity" /\ applied.metric = Euclidean) =>
          LET dist == IF Len(applied.v) # Len(applied.other) THEN MaxFloat64
                      ELSE EuclideanDistance(applied.v, applied.other)
          IN  /\ dist >= 0
              /\ result >= 0 /\ result <= Scale
              /\ 2 * (result * (Scale + dist) - Scale * Scale) <= Scale + dist
              /\ 2 * (Scale * Scale - result * (Scale + dist)) <= Scale + dist

\* the distance of the test vectors {1, 2, 3} and {4, 5}
C20_Witness ==
    /\ applied.fn = "EuclideanDistance"
    /\ applied.v = TestVector3 /\ applied.other = TestVector2
    /\ result = MaxFloat64

(***************************************************************************)
(* C21.  Dot and EuclideanDistance are symmetric and the distance of a     *)
(* vector to itself is 0: Dot(v, w) = Dot(w, v), EuclideanDistance(v, w) = *)
(* EuclideanDistance(w, v), EuclideanDistance(v, v) = 0, exactly, for      *)
(* vectors of equal length, and through the sentinels for vectors of       *)
(* different lengths.                                                      *)
(***************************************************************************)
\* the sum of w[i] * v[i], the second operand first
RECURSIVE SwappedProducts(_, _, _)
SwappedProducts(v, w, k) ==
    IF k = 0 THEN 0 ELSE SwappedProducts(v, w, k - 1) + w[k] * v[k]

C21_Symmetry ==
    /\ applied.fn = "Dot" =>
          /\ result = Dot(applied.other, applied.v)
          /\ Len(applied.v) = Len(applied.other) =>
                result = SwappedProducts(applied.v, applied.other, Len(applied.v))
    /\ applied.fn = "EuclideanDistance" =>
          /\ result = EuclideanDistance(applied.other, applied.v)
          /\ applied.v = applied.other => result = 0

\* the dot product of two different vectors of two dimensions
C21_Witness ==
    /\ applied.fn = "Dot"
    /\ applied.v = <<30, 40>> /\ applied.other = <<40, 0>>
    /\ result = 1200

(***************************************************************************)
(* C22.  Normalize returns a vector of norm 0 (a zero vector, the empty or *)
(* the absent vector) as it is, without dividing, and maps every other     *)
(* vector v to v / Norm(v): same length, same direction, norm 1.  It is    *)
(* idempotent, and the vectors a normalizing Service returns have norm 1   *)
(* or are zero vectors.  Norms are compared within the resolution of the   *)
(* fixed-point arithmetic.                                                 *)
(***************************************************************************)
Abs(x) == IF x < 0 THEN -x ELSE x

\* the error of the norm of Normalize(v): a rounded half unit per component
\* and the truncation of Norm(v)
NormTolerance(v) == Len(v) + Scale \div Norm(v)

UnitNorm(v, tolerance) == Abs(Norm(v) - Scale) <= tolerance

\* u points where v points: components of equal sign, in equal proportion
\* up to the rounding of a half unit per component
SameDirection(u, v) ==
    /\ Len(u) = Len(v)
    /\ \A i \in 1..Len(v) : (u[i] > 0 <=> v[i] > 0) /\ (u[i] < 0 <=> v[i] < 0)
    /\ \A i, j \in 1..Len(v) :
          2 * Abs(u[i] * v[j] - u[j] * v[i]) <= Abs(v[i]) + Abs(v[j])

C22_WitnessZero ==
    /\ applied.fn = "Normalize"
    /\ applied.v = <<0, 0>>
    /\ result = <<0, 0>>

(***************************************************************************)
(* C28.  Pool in the Mean and Max modes over two or more vectors completes *)
(* for every input, vectors of different lengths included, and returns a   *)
(* vector of the dimension of the first vector: it never reads or writes   *)
(* out of range, in particular when a later vector is longer than the      *)
(* first.                                                                  *)
(***************************************************************************)
C28_PoolCompletes ==
    (applied.fn = "Pool" /\ Len(applied.vectors) >= 2 /\ applied.mode # PoolFirst) =>
        /\ ~panicked
        /\ Len(result) = Len(applied.vectors[1])

\* a shorter later vector: Pool completes with the dimension of the first
C28_ShorterCompletes ==
    /\ applied.fn = "Pool"
    /\ applied.vectors = <<<<50, 0>>, <<20>>>>
    /\ applied.mode = PoolMean
    /\ ~panicked
    /\ result = <<35, 0>>

(***************************************************************************)
(* C23.  No operation modifies a vector in place: after Normalize, Pool in *)
(* every mode, Dot, CosineSimilarity, EuclideanDistance and the regroup,   *)
(* pool and normalize steps of Batch, every array the caller held has the  *)
(* contents it had before, and an operation that computes a new value      *)
(* returns a newly created array.                                          *)
(***************************************************************************)
\* the address was allocated by the call
Fresh(a) == a > Len(applied.memory)

\* the slots of a list of addresses that are not nil
Slices(slots) == {i \in 1..Len(slots) : slots[i] # 0}

C23_NoInPlaceModification ==
    applied.fn \in {"Normalize", "Pool", "Similarity", "Batch"} =>
        /\ Len(result.memory) >= Len(applied.memory)
        /\ \A a \in 1..Len(applied.memory) : result.memory[a] = applied.memory[a]
        /\ applied.fn = "Normalize" =>
              IF Norm(applied.memory[applied.v]) = 0 THEN result.ret = applied.v
              ELSE Fresh(result.ret)
        /\ (applied.fn = "Pool" /\ ~panicked) =>
              IF Len(applied.vectors) >= 2 /\ applied.mode # PoolFirst THEN Fresh(result.ret)
              ELSE IF Len(applied.vectors) = 0 THEN result.ret = 0
              ELSE result.ret = applied.vectors[1]
        /\ (applied.fn = "Batch" /\ ~panicked) =>
              /\ Len(result.ret) = applied.texts
              /\ \A i \in Slices(result.ret) :
                    IF Fresh(result.ret[i]) THEN TRUE
                    ELSE applied.mapping[result.ret[i]] = i

\* Normalize of {0.3, 0.4} returned a new array {0.6, 0.8}; the caller's
\* array still holds {0.3, 0.4}
C23_Witness ==
    /\ applied.fn = "Normalize"
    /\ applied.memory = <<<<30, 40>>>> /\ applied.v = 1
    /\ result.ret = 2
    /\ result.memory = <<<<30, 40>>, <<(3 * Scale) \div 5, (4 * Scale) \div 5>>>>

(***************************************************************************)
(* C24.  ForQuery, WithInputType and WithTaskType return a new provider    *)
(* set to the requested mode and leave the receiver unchanged: no step     *)
(* changes the mode of a provider that exists, so after any number of such *)
(* calls the original provider still embeds in the mode it was created     *)
(* with.                                                                   *)
(***************************************************************************)
C24_Derives ==
    LET before == result.providers
        after == result'.providers
    IN  /\ \A p \in 1..Len(before) : after[p] = before[p]
        /\ applied'.fn \in {"ForQuery", "WithInputType"} =>
              /\ result'.ret = Len(before) + 1
              /\ Len(after) = Len(before) + 1
              /\ after[result'.ret].vendor = before[applied'.p].vendor
              /\ after[result'.ret].inputType =
                    IF applied'.fn = "ForQuery" THEN QueryType(before[applied'.p].vendor)
                    ELSE applied'.inputType
        /\ applied'.fn = "Embed" => result'.ret = before[applied'.p].inputType

C24_DerivedProviderIsNew == [][C24_Derives]_vars

\* a voyage provider created in document mode, ForQuery called on it twice:
\* two query providers, and the original still embeds as a document provider
C24_Witness ==
    /\ applied = [fn |-> "Embed", p |-> 1]
    /\ result.providers = <<New("voyage", "document"), New("voyage", "query"),
                             New("voyage", "query")>>
    /\ result.ret = "document"

(***************************************************************************)
(* C25.  Every Batch call that emits EmbedStarted emits exactly one        *)
(* closing event before it returns: EmbedCompleted when it returns without *)
(* error, EmbedFailed when it returns an error.  EmbedStarted is the first *)
(* event of the call, before the pipeline is dispatched, the closing event *)
(* is the last, and a call with an empty text list emits no event.         *)
(***************************************************************************)
C25_OneClosingEvent ==
    pc = "done" =>
        IF Len(texts) = 0 THEN events = <<>>
        ELSE /\ CountSignal("EmbedStarted") = 1
             /\ events[1].sig = "EmbedStarted"
             /\ CountSignal("EmbedCompleted") + CountSignal("EmbedFailed") = 1
             /\ events[Len(events)].sig =
                   IF ret.err = NoError THEN "EmbedCompleted" ELSE "EmbedFailed"

\* a call that returned vectors emitted EmbedStarted first and EmbedCompleted last
C25_ClosedOnSuccess ==
    /\ pc = "done"
    /\ ret.err = NoError /\ Len(ret.vecs) > 0
    /\ events[1].sig = "EmbedStarted"
    /\ events[Len(events)].sig = "EmbedCompleted"

(***************************************************************************)
(* C26.  NewService(provider, o1, ..., on) builds the pipeline             *)
(* o1(o2(...on(terminal)...)): the terminal stage innermost, the first     *)
(* option outermost, the order of the options preserved; without options   *)
(* the pipeline is the terminal stage alone.  WithRetry, WithTimeout gives *)
(* a retry stage around a timeout stage around the terminal.               *)
(***************************************************************************)
\* o1(o2(...on(terminal))), read from the first option inwards
RECURSIVE Nested(_)
Nested(opts) ==
    IF opts = <<>> THEN NewTerminal(DocHandle) ELSE ApplyOption(Head(opts), Nested(Tail(opts)))

C26_OptionsNestInOrder ==
    applied.fn = "NewService" =>
        /\ result = Nested(applied.opts)
        /\ result.provider = DocHandle
        /\ Len(result.stages) = Len(applied.opts)
        /\ \A k \in 1..Len(applied.opts) : result.stages[k] = applied.opts[k]
        /\ applied.opts = <<>> => result = NewTerminal(DocHandle)

\* NewService(provider, WithRetry(n), WithTimeout(d)): retry outermost
C26_Witness ==
    /\ applied.fn = "NewService"
    /\ Len(applied.opts) = 2
    /\ applied.opts[1].kind = "retry" /\ applied.opts[2].kind = "timeout"
    /\ result.stages[1].kind = "retry" /\ result.stages[2].kind = "timeout"

(***************************************************************************)
(* C27.  Regrouping is safe for every number of response vectors: vectors  *)
(* beyond the chunk mapping are ignored, chunks without a vector           *)
(* contribute nothing, no index outside the mapping or the group list is   *)
(* accessed, and the result has exactly one slot per text.                 *)
(***************************************************************************)
\* the elements of a set of numbers in ascending order
RECURSIVE Ascending(_)
Ascending(S) ==
    IF S = {} THEN <<>>
    ELSE LET least == CHOOSE x \in S : \A y \in S : x <= y
         IN  <<least>> \o Ascending(S \ {least})

\* the chunks of text t that have a vector in the response
Answered(t) ==
    {i \in 1..Min(Len(applied.chunkVectors), Len(applied.mapping)) : applied.mapping[i] = t}

C27_WitnessMissing ==
    /\ applied.fn = "poolChunks"
    /\ applied.mapping = <<1, 2>>
    /\ applied.chunkVectors = <<<<50>>>>
    /\ result = <<<<50>>, <<>>>>

(***************************************************************************)
(* C29.  Fixed chunking with trimming off loses no text: for every         *)
(* maxSize > 0, every overlap (negative, zero, below maxSize, maxSize or   *)
(* more) and every text longer than maxSize, the first chunk starts at the *)
(* first code point, the last chunk ends at the last code point, and every *)
(* position of the text lies inside at least one chunk.                    *)
(***************************************************************************)
\* the 0-based position in the text at which chunk k of the result starts
ChunkStart(k) == (k - 1) * FixedStep(applied.chunker)

\* the chunks of the result are the text at their positions, from the first
\* code point to the last, without a gap
ChunksCoverText ==
    LET text == applied.text
    IN  /\ Len(result) >= 1
        /\ \A k \in 1..Len(result) :
              /\ ChunkStart(k) + Len(result[k]) <= Len(text)
              /\ result[k] = SubSeq(text, ChunkStart(k) + 1, ChunkStart(k) + Len(result[k]))
        /\ ChunkStart(Len(result)) + Len(result[Len(result)]) = Len(text)
        /\ \A pos \in 1..Len(text) :
              \E k \in 1..Len(result) :
                  ChunkStart(k) < pos /\ pos <= ChunkStart(k) + Len(result[k])

\* the calls the statement is about
FixedOnLongText ==
    /\ applied.fn = "Chunk"
    /\ applied.chunker.Strategy = ChunkFixed
    /\ ~applied.chunker.TrimSpace
    /\ applied.chunker.MaxSize > 0
    /\ Len(applied.text) > applied.chunker.MaxSize

C29_FixedLosesNoText == FixedOnLongText => ChunksCoverText

\* the same for the overlaps that are not negative
C29_NoLossWithoutNegativeOverlap ==
    (FixedOnLongText /\ applied.chunker.Overlap >= 0) => ChunksCoverText

(***************************************************************************)
(* C30.  chunkByFixed terminates with a finite sequence of chunks for      *)
(* every text and every configuration: in its loop the step is at least 1, *)
(* the start of the window strictly increases from pass to pass, every     *)
(* window appended ends strictly later than the one before, and the number *)
(* of chunks never exceeds the number of code points of the text.          *)
(***************************************************************************)
\* the call is inside or past the loop
LoopRan == applied.fn = "chunkByFixed" /\ Len(applied.text) > applied.chunker.MaxSize
              /\ applied.chunker.MaxSize > 0

C30_LoopBounds ==
    /\ LoopRan =>
          /\ stepOf(applied.chunker) >= 1
          /\ Len(result.chunks) <= Len(applied.text)
          /\ result.end <= Len(applied.text)
    /\ (applied.fn = "chunkByFixed" /\ result.pc = "returned") =>
          result.chunks = chunkByFixed(applied.chunker, applied.text)

\* what one pass of the loop changes
C30_LoopProgress ==
    (applied.fn = "chunkByFixed" /\ result.pc = "loop" /\ result' # result) =>
        /\ result'.pc = "loop" => result'.i > result.i
        /\ Len(result'.chunks) > Len(result.chunks) =>
              /\ Len(result'.chunks) = Len(result.chunks) + 1
              /\ result'.end > result.end

C30_Returned == applied.fn = "chunkByFixed" /\ result.pc = "returned"

C30_FixedLoopTerminates ==
    /\ []C30_LoopBounds
    /\ [][C30_LoopProgress]_vars
    /\ <>C30_Returned

\* maxSize 2, overlap 1, four code points: returned after three passes
C30_Witness ==
    /\ C30_Returned
    /\ applied.chunker.MaxSize = 2 /\ applied.chunker.Overlap = 1
    /\ Len(applied.text) = 4
    /\ Len(result.chunks) = 3
    /\ result.i = 2 /\ result.end = 4

====
